---- MODULE Spec2Model ----
(***************************************************************************)
(* Model of the Metall manager kernel (manager_kernel_impl.ipp): datastore *)
(* lifecycle (create / open / close / destructor), the properly-closed     *)
(* mark, and the attributed-object operations (construct / find /         *)
(* destroy) together with raw allocate / allocate_aligned / deallocate.    *)
(*                                                                         *)
(* Sizes are counted in abstract units; one chunk is k_chunk_size units.   *)
(* One process owns at most one kernel object at a time; a killed or       *)
(* aborted process loses the kernel and keeps the files.                   *)
(***************************************************************************)
EXTENDS Integers, Sequences, FiniteSets, TLC

\* ------------------------------------------------------------------------
\* Bounds of the model
\* ------------------------------------------------------------------------
MaxReserveChunks == 3   \* largest VM reservation a caller asks for, in chunks
MaxCount == 2           \* largest element count of one construct
MaxUuid == 2            \* number of UUIDs the generator hands out
MaxOps == 1             \* heap-changing calls over a run of whole lifecycles
MaxObjOps == 2          \* heap-changing calls over a run of object operations

\* ------------------------------------------------------------------------
\* Program constants
\* ------------------------------------------------------------------------
k_chunk_size == 2
system_page_size == 1
segment_header_sizeof == 1
k_null_offset == 1000
nullptr == 0

k_max_segment_size == MaxReserveChunks * k_chunk_size
k_initial_segment_size == k_chunk_size

Paths == {"p"}
SnapPaths == {"q"}
DiskPaths == Paths \cup SnapPaths \cup {""}
VmAddrs == {100, 200}
UserNames == {"a"}
Types == {"char", "short"}
KeySeq == <<"a", "c", "s">>
MaxUnits == (MaxReserveChunks - 1) * k_chunk_size
Units == 0..(MaxUnits - 1)
Counts == 1..MaxCount
ReserveSizes == {k_max_segment_size - 1, k_max_segment_size + 1}

\* sizeof(T) and typeid(T).name()
SizeOf(T) == IF T = "char" THEN 1 ELSE 2
TypeIdName(T) == IF T = "char" THEN "c" ELSE "s"

\* char_ptr_holder: a kind and, for the named kind, the user's string
Holders == [kind : {"named"}, name : UserNames]
             \cup [kind : {"unique", "anonymous"}, name : {""}]

\* the element type the program uses with each holder: a name always with
\* the type it was constructed with
CallSites == {c \in Holders \X Types : c[1].kind = "named" => c[2] = "char"}

\* the directory key of a holder (lines 214, 242, 280)
raw_name(name, T) == IF name.kind = "unique" THEN TypeIdName(T) ELSE name.name

\* util::round_up
round_up(n, a) == ((n + a - 1) \div a) * a

VARIABLES
  disk,                       \* the file system, per base path
  kpc,                        \* position of the process in the kernel's code
  inDtor,                     \* close() is running on behalf of ~manager_kernel
  ndebug,                     \* the build: TRUE when assert() is compiled out
  m_base_dir_path,
  m_vm_region,
  m_vm_region_size,
  m_segment_header,
  m_segment_header_size,
  m_named_object_directory,   \* name -> [offset, length]
  m_segment_storage,          \* [segment, size, capacity, read_only]
  m_segment_memory_allocator, \* chunk directory with the slab bitmaps
  nextUuid,                   \* the random UUID generator
  lastOp,                     \* outcome of the last completed call
  closeLog,                   \* outcome of each step of the running/last close
  closedDir,                  \* the directory each store had when its last writable close began
  call,                       \* arguments of the create/open call in progress
  ops,                        \* heap-changing calls made so far
  thr                         \* the threads of the process: position, locks held, call

kernelVars == <<m_base_dir_path, m_vm_region, m_vm_region_size, m_segment_header,
                m_segment_header_size, m_named_object_directory, m_segment_storage,
                m_segment_memory_allocator>>

vars == <<disk, kpc, inDtor, ndebug, m_base_dir_path, m_vm_region, m_vm_region_size,
          m_segment_header, m_segment_header_size, m_named_object_directory,
          m_segment_storage, m_segment_memory_allocator, nextUuid, lastOp,
          closeLog, closedDir, call, ops, thr>>

\* ------------------------------------------------------------------------
\* The file system
\* ------------------------------------------------------------------------
ZeroData == [u \in Units |-> 0]

\* a base path without a datastore directory
NoStore == [ds |-> FALSE, marker |-> FALSE, seg |-> FALSE, size |-> 0,
            data |-> ZeroData, ndirOk |-> FALSE, ndir |-> <<>>,
            nallocOk |-> FALSE, nalloc |-> [version |-> 0, chunks |-> <<>>],
            uuid |-> 0]

\* util::file_exist(base/datastore/properly_closed)
priv_properly_closed(path) == disk[path].ds /\ disk[path].marker

\* manager_kernel::consistent
consistent(path) == priv_properly_closed(path)

\* util::create_file(base/datastore/properly_closed): needs the directory
MarkedDisk(d, path) ==
  IF d[path].ds THEN [d EXCEPT ![path].marker = TRUE] ELSE d

\* util::remove_file(base/datastore/properly_closed)
UnmarkedDisk(d, path) == [d EXCEPT ![path].marker = FALSE]

\* priv_remove_data_store that removes the datastore of every base path
priv_remove_data_store_everywhere(d, path) == [q \in DOMAIN d |-> NoStore]

\* priv_remove_data_store that deletes the files of the datastore but leaves
\* the directory and its properly_closed marker
priv_remove_data_store_marker_kept(d, path) ==
  [d EXCEPT ![path] = [NoStore EXCEPT !.ds = d[path].ds, !.marker = d[path].marker]]

\* priv_remove_data_store: util::remove_file(base/datastore), recursively
priv_remove_data_store(d, path) == [d EXCEPT ![path] = NoStore]

\* priv_init_datastore_directory without the removal of line 372
priv_init_datastore_directory_kept(d, path) == [d EXCEPT ![path].ds = TRUE]

\* priv_init_datastore_directory: wipe, then create an empty datastore/
priv_init_datastore_directory(d, path) ==
  [priv_remove_data_store(d, path) EXCEPT ![path].ds = TRUE]

\* segment_storage::openable
openable(path) == disk[path].ds /\ disk[path].seg

\* ------------------------------------------------------------------------
\* Kernel object
\* ------------------------------------------------------------------------
EmptyDir == [k \in {} |-> [offset |-> 0, length |-> 0]]
NoCall == [path |-> "", read_only |-> FALSE, vm_reserve_size |-> 0]
NoSegment == [segment |-> nullptr, size |-> 0, capacity |-> 0, read_only |-> FALSE]
NoOp == [op |-> "none", key |-> "", ret |-> 0, len |-> 0, ctors |-> <<>>,
         dtors |-> <<>>, exc |-> FALSE, align |-> 0]
Op(o, k, r, l, cs, ds, e) ==
  [op |-> o, key |-> k, ret |-> r, len |-> l, ctors |-> cs, dtors |-> ds, exc |-> e,
   align |-> 0]
\* serialize: priv_serialize_management_data; release: the sync, the segment
\* destroy, the header and the VM release together ("failed": one of them)
\* mark: priv_mark_properly_closed in the destructor; path: the store closed
NoCloseLog == [ran |-> FALSE, path |-> "", serialize |-> "no", release |-> "no",
               mark |-> "no"]

\* manager_kernel::manager_kernel: the member initializers
FreshKernel ==
  /\ m_base_dir_path' = ""
  /\ m_vm_region' = nullptr
  /\ m_vm_region_size' = 0
  /\ m_segment_header' = nullptr
  /\ m_segment_header_size' = 0
  /\ m_named_object_directory' = EmptyDir
  /\ m_segment_storage' = NoSegment
  /\ m_segment_memory_allocator' = <<>>

\* priv_validate_runtime_configuration
priv_validate_runtime_configuration ==
  /\ system_page_size > 0
  /\ k_chunk_size % system_page_size = 0

\* priv_initialized: the value it returns
priv_initialized ==
  /\ m_vm_region # nullptr
  /\ m_vm_region_size > 0
  /\ m_segment_header # nullptr
  /\ m_segment_storage.size > 0

\* priv_initialized: its two assert()s
priv_initialized_asserts ==
  /\ m_base_dir_path # ""
  /\ m_segment_storage.segment # nullptr

\* std::abort(), a failed assert(), a fault or a kill: the process ends, the
\* files stay as they are
Die(why, reason) ==
  /\ kpc' = "none"
  /\ inDtor' = FALSE
  /\ FreshKernel
  /\ call' = NoCall
  /\ lastOp' = Op(why, reason, 0, 0, <<>>, <<>>, FALSE)
  /\ UNCHANGED <<disk, ndebug, nextUuid, closeLog, closedDir, ops>>

\* the threads of the process and a thread that made no call yet
Threads == {1, 2}
IdleThread ==
  [pc |-> "idle", held |-> <<>>, op |-> "none", try2find |-> FALSE, failAt |-> 0,
   addr |-> nullptr, ret |-> nullptr, len |-> 0, inits |-> 0, exc |-> FALSE,
   conc |-> FALSE, key |-> "", had |-> FALSE, seq |-> 0]
NoThreads == [t \in Threads |-> <<>>]

\* the record of thread t: a thread that made no call yet has none
Th(t) == IF thr[t] = <<>> THEN IdleThread ELSE thr[t][1]

Init ==
  /\ disk = [p \in DiskPaths |-> NoStore]
  /\ kpc = "none"
  /\ inDtor = FALSE
  /\ ndebug \in BOOLEAN
  /\ m_base_dir_path = ""
  /\ m_vm_region = nullptr
  /\ m_vm_region_size = 0
  /\ m_segment_header = nullptr
  /\ m_segment_header_size = 0
  /\ m_named_object_directory = EmptyDir
  /\ m_segment_storage = NoSegment
  /\ m_segment_memory_allocator = <<>>
  /\ nextUuid = 1
  /\ lastOp = NoOp
  /\ closeLog = NoCloseLog
  /\ closedDir = [p \in Paths \cup SnapPaths |-> EmptyDir]
  /\ call = NoCall
  /\ ops = 0
  /\ thr = NoThreads

\* manager_kernel::manager_kernel
NewKernel ==
  /\ kpc = "none"
  /\ IF priv_validate_runtime_configuration
       THEN /\ kpc' = "idle"
            /\ FreshKernel
            /\ lastOp' = Op("new", "", 0, 0, <<>>, <<>>, FALSE)
            /\ closeLog' = NoCloseLog
            /\ UNCHANGED <<disk, inDtor, ndebug, nextUuid, closedDir, call, ops>>
       ELSE Die("abort", "invalid_configuration")

\* ------------------------------------------------------------------------
\* create
\* ------------------------------------------------------------------------
\* create without its two checks
create_begin_unchecked(base_dir_path, vm_reserve_size, page_ok) ==
  /\ kpc = "idle"
  /\ nextUuid <= MaxUuid
  /\ m_base_dir_path' = base_dir_path
  /\ call' = [path |-> base_dir_path, read_only |-> FALSE,
              vm_reserve_size |-> vm_reserve_size]
  /\ kpc' = "create_unmark"
  /\ UNCHANGED <<disk, inDtor, ndebug, m_vm_region, m_vm_region_size,
                 m_segment_header, m_segment_header_size,
                 m_named_object_directory, m_segment_storage,
                 m_segment_memory_allocator, nextUuid, lastOp, closeLog,
                 closedDir, ops>>

\* create, lines 49-59: the checks and m_base_dir_path; page_ok is whether
\* util::get_page_size gave a page size (line 395: it may fail and give -1)
create_begin(base_dir_path, vm_reserve_size, page_ok) ==
  /\ kpc = "idle"
  /\ nextUuid <= MaxUuid
  /\ IF ~(page_ok /\ priv_validate_runtime_configuration) \/ vm_reserve_size > k_max_segment_size
       THEN Die("abort", "invalid_configuration")
       ELSE /\ m_base_dir_path' = base_dir_path
            /\ call' = [path |-> base_dir_path, read_only |-> FALSE,
                        vm_reserve_size |-> vm_reserve_size]
            /\ kpc' = "create_unmark"
            /\ UNCHANGED <<disk, inDtor, ndebug, m_vm_region, m_vm_region_size,
                           m_segment_header, m_segment_header_size,
                           m_named_object_directory, m_segment_storage,
                           m_segment_memory_allocator, nextUuid, lastOp, closeLog,
                           closedDir, ops>>

\* create, line 61, first operand: priv_unmark_properly_closed
create_unmark(ok) ==
  /\ kpc = "create_unmark"
  /\ IF ~ok
       THEN Die("abort", "io_failure")
       ELSE /\ disk' = UnmarkedDisk(disk, m_base_dir_path)
            /\ kpc' = "create_initdir"
            /\ UNCHANGED <<inDtor, ndebug, kernelVars, nextUuid, lastOp, closeLog,
                           closedDir, call, ops>>

\* create, line 61, second operand: priv_init_datastore_directory
create_initdir(ok) ==
  /\ kpc = "create_initdir"
  /\ IF ~ok
       THEN Die("abort", "io_failure")
       ELSE /\ disk' = priv_init_datastore_directory(disk, m_base_dir_path)
            /\ kpc' = "create_reserve"
            /\ closedDir' = [closedDir EXCEPT ![m_base_dir_path] = EmptyDir]
            /\ UNCHANGED <<inDtor, ndebug, kernelVars, nextUuid, lastOp, closeLog,
                           call, ops>>

\* priv_reserve_vm_region, reached from create (line 66) and open (line 108)
\* (region: what the reservation returns, nullptr on failure)
priv_reserve_vm_region(next, region) ==
  IF region = nullptr
    THEN Die("abort", "io_failure")
    ELSE /\ m_vm_region_size' = round_up(call.vm_reserve_size, k_chunk_size)
         /\ m_vm_region' = region
         /\ kpc' = next
         /\ UNCHANGED <<disk, inDtor, ndebug, m_base_dir_path, m_segment_header,
                        m_segment_header_size, m_named_object_directory,
                        m_segment_storage, m_segment_memory_allocator, nextUuid,
                        lastOp, closeLog, closedDir, call, ops>>

\* priv_allocate_segment_header with the header size not rounded to chunks
priv_allocate_segment_header_unrounded(next) ==
  \E ok \in BOOLEAN :
    IF m_vm_region = nullptr \/ ~ok
      THEN Die("abort", "io_failure")
      ELSE /\ m_segment_header_size' = segment_header_sizeof
           /\ m_segment_header' = m_vm_region
           /\ kpc' = next
           /\ UNCHANGED <<disk, inDtor, ndebug, m_base_dir_path, m_vm_region,
                          m_vm_region_size, m_named_object_directory,
                          m_segment_storage, m_segment_memory_allocator, nextUuid,
                          lastOp, closeLog, closedDir, call, ops>>

\* priv_allocate_segment_header, reached from create (line 70) and open (line 112)
priv_allocate_segment_header(next) ==
  \E ok \in BOOLEAN :
    IF m_vm_region = nullptr \/ ~ok
      THEN Die("abort", "io_failure")
      ELSE /\ m_segment_header_size' = round_up(segment_header_sizeof, k_chunk_size)
           /\ m_segment_header' = m_vm_region
           /\ kpc' = next
           /\ UNCHANGED <<disk, inDtor, ndebug, m_base_dir_path, m_vm_region,
                          m_vm_region_size, m_named_object_directory,
                          m_segment_storage, m_segment_memory_allocator, nextUuid,
                          lastOp, closeLog, closedDir, call, ops>>

create_reserve(region) ==
  kpc = "create_reserve" /\ priv_reserve_vm_region("create_header", region)
create_header == kpc = "create_header" /\ priv_allocate_segment_header("create_segment")

\* the offset of the data segment inside the VM region (lines 74-75, 122-123)
size_for_header == m_segment_header_size + (m_segment_header - m_vm_region)

\* segment_storage::create(path, vm_capacity, addr, initial_size)
segment_storage_create(vm_capacity, addr, initial_size) ==
  [segment |-> addr, size |-> initial_size, capacity |-> vm_capacity,
   read_only |-> FALSE]

\* create, lines 76-82
create_segment(ok) ==
  /\ kpc = "create_segment"
  /\ LET capacity == m_vm_region_size - size_for_header
     IN IF ~ok \/ capacity < k_initial_segment_size
          THEN Die("abort", "io_failure")
          ELSE /\ m_segment_storage' =
                    segment_storage_create(capacity, m_vm_region + size_for_header,
                                           k_initial_segment_size)
               /\ disk' = [disk EXCEPT ![m_base_dir_path].seg = TRUE,
                                       ![m_base_dir_path].size = k_initial_segment_size,
                                       ![m_base_dir_path].data = ZeroData]
               /\ kpc' = "create_uuid"
               /\ UNCHANGED <<inDtor, ndebug, m_base_dir_path, m_vm_region,
                              m_vm_region_size, m_segment_header,
                              m_segment_header_size, m_named_object_directory,
                              m_segment_memory_allocator, nextUuid, lastOp,
                              closeLog, closedDir, call, ops>>

\* priv_store_uuid that writes into the kernel's own store
priv_store_uuid_own(d, path, uuid) ==
  IF d[m_base_dir_path].ds THEN [d EXCEPT ![m_base_dir_path].uuid = uuid] ELSE d

\* priv_store_uuid: a fresh random UUID into base/datastore/uuid
priv_store_uuid(d, path, uuid) ==
  IF d[path].ds THEN [d EXCEPT ![path].uuid = uuid] ELSE d

\* create, lines 84-87
create_uuid(ok) ==
  /\ kpc = "create_uuid"
  /\ IF ~ok
       THEN Die("abort", "io_failure")
       ELSE /\ disk' = priv_store_uuid(disk, m_base_dir_path, nextUuid)
            /\ nextUuid' = nextUuid + 1
            /\ kpc' = "ready"
            /\ call' = NoCall
            /\ lastOp' = Op("create", "", 1, 0, <<>>, <<>>, FALSE)
            /\ UNCHANGED <<inDtor, ndebug, kernelVars, closeLog, closedDir, ops>>

\* ------------------------------------------------------------------------
\* Segment memory allocator: chunk directory and slab bitmaps
\* ------------------------------------------------------------------------
\* chunk number n is entry n + 1 of the directory
FreeChunk == [kind |-> "free", arg |-> 0, bits |-> {}]
SlabChunk(class, bits) == [kind |-> "slab", arg |-> class, bits |-> bits]
LargeHead(n) == [kind |-> "large_head", arg |-> n, bits |-> {}]
LargeTail(head) == [kind |-> "large_tail", arg |-> head, bits |-> {}]

\* the small-object sizes; larger requests take whole chunks
SizeClasses == {1}
MaxSmall == CHOOSE c \in SizeClasses : \A d \in SizeClasses : d <= c
ClassOf(nbytes) ==
  CHOOSE c \in SizeClasses : c >= nbytes /\ \A d \in SizeClasses : d >= nbytes => c <= d
SlotsOf(class) == k_chunk_size \div class
ChunksFor(nbytes) == (nbytes + k_chunk_size - 1) \div k_chunk_size

\* is the run of n chunks starting at chunk number c free in directory A
FreeRun(A, c, n) == \A i \in c..(c + n - 1) : i < Len(A) /\ A[i + 1].kind = "free"

\* number of free chunks at the end of the directory
RECURSIVE TrailingFree(_)
TrailingFree(A) ==
  IF Len(A) = 0 \/ A[Len(A)].kind # "free" THEN 0
  ELSE 1 + TrailingFree(SubSeq(A, 1, Len(A) - 1))

\* the directory grown to n chunks
RECURSIVE Grown(_, _)
Grown(A, n) == IF Len(A) >= n THEN A ELSE Grown(Append(A, FreeChunk), n)

\* find_free_run: first fit, lowest chunk number; -1 when there is none
find_free_run(A, n, align_chunks) ==
  LET fits == {c \in 0..(Len(A) - 1) : c % align_chunks = 0 /\ FreeRun(A, c, n)}
  IN IF fits = {} THEN -1 ELSE CHOOSE c \in fits : \A d \in fits : c <= d

\* the directory with a free run of n chunks, extended when the backing
\* store may still grow (segment_storage::extend); A itself when it may not
WithFreeRun(A, n, capacity) ==
  IF find_free_run(A, n, 1) >= 0 THEN A
  ELSE LET need == Len(A) - TrailingFree(A) + n
       IN IF need * k_chunk_size <= capacity THEN Grown(A, need) ELSE A

mark_large(A, c, n) ==
  [i \in 1..Len(A) |->
     IF i = c + 1 THEN LargeHead(n)
     ELSE IF i > c + 1 /\ i <= c + n THEN LargeTail(c)
     ELSE A[i]]

mark_free_run(A, c, n) ==
  [i \in 1..Len(A) |-> IF i >= c + 1 /\ i <= c + n THEN FreeChunk ELSE A[i]]

\* bin manager: the slab a small allocation goes to: the fullest slab of
\* the class that still has a free slot, lowest chunk number first
PartialSlabs(A, class) ==
  {c \in 0..(Len(A) - 1) :
     /\ A[c + 1].kind = "slab"
     /\ A[c + 1].arg = class
     /\ Cardinality(A[c + 1].bits) < SlotsOf(class)}

HeadSlab(A, class) ==
  CHOOSE c \in PartialSlabs(A, class) :
    \A d \in PartialSlabs(A, class) :
      \/ Cardinality(A[c + 1].bits) > Cardinality(A[d + 1].bits)
      \/ Cardinality(A[c + 1].bits) = Cardinality(A[d + 1].bits) /\ c <= d

FirstClearBit(bits, class) ==
  CHOOSE b \in 0..(SlotsOf(class) - 1) :
    b \notin bits /\ \A e \in 0..(b - 1) : e \in bits

\* segment_allocator::allocate: the new directory and the offset
\* (k_null_offset and the old directory when the segment cannot grow)
alloc_small(A, class, capacity) ==
  IF PartialSlabs(A, class) # {}
    THEN LET c == HeadSlab(A, class)
             b == FirstClearBit(A[c + 1].bits, class)
         IN [dir |-> [A EXCEPT ![c + 1].bits = @ \cup {b}],
             offset |-> c * k_chunk_size + b * class]
    ELSE LET B == WithFreeRun(A, 1, capacity)
             c == find_free_run(B, 1, 1)
         IN IF c < 0 THEN [dir |-> A, offset |-> k_null_offset]
            ELSE [dir |-> [B EXCEPT ![c + 1] = SlabChunk(class, {0})],
                  offset |-> c * k_chunk_size]

alloc_large(A, n, capacity) ==
  LET B == WithFreeRun(A, n, capacity)
      c == find_free_run(B, n, 1)
  IN IF c < 0 THEN [dir |-> A, offset |-> k_null_offset]
     ELSE [dir |-> mark_large(B, c, n), offset |-> c * k_chunk_size]

alloc_allocate(A, nbytes, capacity) ==
  IF nbytes <= MaxSmall THEN alloc_small(A, ClassOf(nbytes), capacity)
  ELSE alloc_large(A, ChunksFor(nbytes), capacity)

\* is a one of 1, 2, 4, ...
RECURSIVE IsPowerOfTwo(_)
IsPowerOfTwo(a) ==
  IF a <= 0 THEN FALSE
  ELSE IF a = 1 THEN TRUE
  ELSE a % 2 = 0 /\ IsPowerOfTwo(a \div 2)

\* segment_allocator::allocate_aligned: a slot of the smallest class that
\* holds nbytes and is a multiple of the alignment, else a run of whole
\* chunks; the null offset for an alignment that is not a power of two or
\* exceeds the chunk size
alloc_allocate_aligned(A, nbytes, alignment, capacity) ==
  LET classes == {c \in SizeClasses : c >= nbytes /\ c % alignment = 0}
  IN IF ~IsPowerOfTwo(alignment) \/ alignment > k_chunk_size
       THEN [dir |-> A, offset |-> k_null_offset]
     ELSE IF classes # {}
       THEN alloc_small(A, CHOOSE c \in classes : \A d \in classes : c <= d,
                        capacity)
     ELSE alloc_large(A, ChunksFor(nbytes), capacity)

\* segment_allocator::deallocate: dispatch on the state of the offset's chunk
alloc_deallocate(A, offset) ==
  LET c == offset \div k_chunk_size
  IN IF offset < 0 \/ c >= Len(A) THEN A
     ELSE IF A[c + 1].kind = "slab"
       THEN LET b == (offset % k_chunk_size) \div A[c + 1].arg
                bits == A[c + 1].bits \ {b}
            IN IF bits = {} THEN [A EXCEPT ![c + 1] = FreeChunk]
               ELSE [A EXCEPT ![c + 1].bits = bits]
     ELSE IF A[c + 1].kind = "large_head" /\ offset % k_chunk_size = 0
       THEN mark_free_run(A, c, A[c + 1].arg)
     ELSE A

\* the live allocations of a directory, as a set of [offset, size]
LiveAllocations(A) ==
  {[offset |-> (i - 1) * k_chunk_size + b * A[i].arg, size |-> A[i].arg] :
      <<i, b>> \in {x \in (1..Len(A)) \X (0..(k_chunk_size - 1)) :
                      A[x[1]].kind = "slab" /\ x[2] \in A[x[1]].bits}}
  \cup {[offset |-> (i - 1) * k_chunk_size, size |-> A[i].arg * k_chunk_size] :
          i \in {j \in 1..Len(A) : A[j].kind = "large_head"}}

\* all_memory_deallocated
all_memory_deallocated(A) == \A i \in 1..Len(A) : A[i].kind = "free"

\* ------------------------------------------------------------------------
\* Named object directory
\* ------------------------------------------------------------------------
\* named_object_directory::insert: the directory with the entry, unless the
\* name is taken
dir_insert(D, name, offset, length) ==
  IF name \in DOMAIN D THEN D
  ELSE [k \in DOMAIN D \cup {name} |->
          IF k = name THEN [offset |-> offset, length |-> length] ELSE D[k]]

\* named_object_directory::erase
dir_erase(D, name) == [k \in DOMAIN D \ {name} |-> D[k]]

\* named_object_directory::serialize: one record per entry, in key order
RECURSIVE SerializeFrom(_, _)
SerializeFrom(D, i) ==
  IF i > Len(KeySeq) THEN <<>>
  ELSE IF KeySeq[i] \in DOMAIN D
    THEN <<[name |-> KeySeq[i], offset |-> D[KeySeq[i]].offset,
            length |-> D[KeySeq[i]].length]>> \o SerializeFrom(D, i + 1)
    ELSE SerializeFrom(D, i + 1)

dir_serialize(D) == SerializeFrom(D, 1)

\* named_object_directory::deserialize: insert the records one by one
RECURSIVE dir_deserialize(_)
dir_deserialize(recs) ==
  IF recs = <<>> THEN EmptyDir
  ELSE dir_insert(dir_deserialize(Tail(recs)), Head(recs).name,
                  Head(recs).offset, Head(recs).length)

\* segment_allocator::serialize / deserialize: version byte, then the
\* chunk directory with the slab bitmaps
k_allocator_version == 1
alloc_serialize(A) == [version |-> k_allocator_version, chunks |-> A]
alloc_deserializable(f) == f.version = k_allocator_version
alloc_deserialize(f) == f.chunks

\* ------------------------------------------------------------------------
\* open
\* ------------------------------------------------------------------------
OpenReserveSizes == {k_max_segment_size - 1}

\* open_begin without the test of priv_properly_closed
open_begin_unchecked(base_dir_path, read_only, vm_reserve_size) ==
  /\ kpc = "idle"
  /\ IF ~priv_validate_runtime_configuration
       THEN Die("abort", "invalid_configuration")
     ELSE IF ~openable(base_dir_path)
       THEN /\ lastOp' = Op("open", "", 0, 0, <<>>, <<>>, FALSE)
            /\ UNCHANGED <<disk, kpc, inDtor, ndebug, kernelVars, nextUuid,
                           closeLog, closedDir, call, ops>>
     ELSE /\ m_base_dir_path' = base_dir_path
          /\ call' = [path |-> base_dir_path, read_only |-> read_only,
                      vm_reserve_size |-> vm_reserve_size]
          /\ kpc' = "open_reserve"
          /\ UNCHANGED <<disk, inDtor, ndebug, m_vm_region, m_vm_region_size,
                         m_segment_header, m_segment_header_size,
                         m_named_object_directory, m_segment_storage,
                         m_segment_memory_allocator, nextUuid, lastOp, closeLog,
                         closedDir, ops>>

\* open, lines 90-106
open_begin(base_dir_path, read_only, vm_reserve_size) ==
  /\ kpc = "idle"
  /\ IF ~priv_validate_runtime_configuration
       THEN Die("abort", "invalid_configuration")
     ELSE IF ~openable(base_dir_path)
       THEN /\ lastOp' = Op("open", "", 0, 0, <<>>, <<>>, FALSE)
            /\ UNCHANGED <<disk, kpc, inDtor, ndebug, kernelVars, nextUuid,
                           closeLog, closedDir, call, ops>>
     ELSE IF ~priv_properly_closed(base_dir_path)
       THEN Die("abort", "inconsistent_datastore")
     ELSE /\ m_base_dir_path' = base_dir_path
          /\ call' = [path |-> base_dir_path, read_only |-> read_only,
                      vm_reserve_size |-> vm_reserve_size]
          /\ kpc' = "open_reserve"
          /\ UNCHANGED <<disk, inDtor, ndebug, m_vm_region, m_vm_region_size,
                         m_segment_header, m_segment_header_size,
                         m_named_object_directory, m_segment_storage,
                         m_segment_memory_allocator, nextUuid, lastOp, closeLog,
                         closedDir, ops>>

open_reserve(region) ==
  kpc = "open_reserve" /\ priv_reserve_vm_region("open_header", region)
open_header == kpc = "open_header" /\ priv_allocate_segment_header("open_unmark")

\* open_unmark with the read_only test inverted: the mark stays on a
\* writable open
open_unmark_kept(ok) ==
  /\ kpc = "open_unmark"
  /\ IF call.read_only /\ ~ok
       THEN Die("abort", "io_failure")
       ELSE /\ disk' = IF ~call.read_only THEN disk
                                         ELSE UnmarkedDisk(disk, m_base_dir_path)
            /\ kpc' = "open_segment"
            /\ UNCHANGED <<inDtor, ndebug, kernelVars, nextUuid, lastOp, closeLog,
                           closedDir, call, ops>>

\* open, lines 116-120: clear the mark before opening with the write mode
open_unmark(ok) ==
  /\ kpc = "open_unmark"
  /\ IF ~call.read_only /\ ~ok
       THEN Die("abort", "io_failure")
       ELSE /\ disk' = IF call.read_only THEN disk
                                        ELSE UnmarkedDisk(disk, m_base_dir_path)
            /\ kpc' = "open_segment"
            /\ UNCHANGED <<inDtor, ndebug, kernelVars, nextUuid, lastOp, closeLog,
                           closedDir, call, ops>>

\* segment_storage::open(path, vm_capacity, addr, read_only)
segment_storage_open(file_size, vm_capacity, addr, read_only) ==
  [segment |-> addr, size |-> file_size, capacity |-> vm_capacity,
   read_only |-> read_only]

\* open, lines 122-129
open_segment(ok) ==
  /\ kpc = "open_segment"
  /\ LET capacity == m_vm_region_size - size_for_header
         file == disk[m_base_dir_path]
     IN IF ~ok \/ ~file.seg \/ file.size > capacity
          THEN Die("abort", "io_failure")
          ELSE /\ m_segment_storage' =
                    segment_storage_open(file.size, capacity,
                                         m_vm_region + size_for_header,
                                         call.read_only)
               /\ kpc' = "open_deserialize"
               /\ UNCHANGED <<disk, inDtor, ndebug, m_base_dir_path, m_vm_region,
                              m_vm_region_size, m_segment_header,
                              m_segment_header_size, m_named_object_directory,
                              m_segment_memory_allocator, nextUuid, lastOp,
                              closeLog, closedDir, call, ops>>

\* priv_deserialize_management_data: may it succeed on these files
priv_deserializable(file) ==
  file.ndirOk /\ file.nallocOk /\ alloc_deserializable(file.nalloc)

\* open, lines 131-136, with priv_deserialize_management_data
open_deserialize(ok) ==
  /\ kpc = "open_deserialize"
  /\ LET file == disk[m_base_dir_path]
     IN IF ~ok \/ ~priv_deserializable(file)
          THEN Die("abort", "io_failure")
          ELSE /\ m_named_object_directory' = dir_deserialize(file.ndir)
               /\ m_segment_memory_allocator' = alloc_deserialize(file.nalloc)
               /\ kpc' = "ready"
               /\ lastOp' = Op("open", "", 1, 0, <<>>, <<>>, FALSE)
               /\ call' = NoCall
               /\ UNCHANGED <<disk, inDtor, ndebug, m_base_dir_path, m_vm_region,
                              m_vm_region_size, m_segment_header,
                              m_segment_header_size, m_segment_storage, nextUuid,
                              closeLog, closedDir, ops>>

\* ------------------------------------------------------------------------
\* Operations of an open kernel
\* ------------------------------------------------------------------------
Max(a, b) == IF a >= b THEN a ELSE b

\* the bytes of the mapped data segment: the pages of the segment file
Memory == disk[m_base_dir_path].data

\* allocate that returns the segment base whatever the offset (line 165)
kernel_allocate_base(nbytes) ==
  IF m_segment_storage.read_only
    THEN [ptr |-> nullptr, alloc |-> m_segment_memory_allocator,
          size |-> m_segment_storage.size, asserts |-> TRUE]
    ELSE LET r == alloc_allocate(m_segment_memory_allocator, nbytes,
                                 m_segment_storage.capacity)
             sz == Max(m_segment_storage.size, Len(r.dir) * k_chunk_size)
         IN [ptr |-> m_segment_storage.segment, alloc |-> r.dir, size |-> sz,
             asserts |-> r.offset >= 0 /\ r.offset + nbytes <= sz]

\* allocate without the read_only test of line 160
kernel_allocate_unchecked(nbytes) ==
  LET r == alloc_allocate(m_segment_memory_allocator, nbytes,
                          m_segment_storage.capacity)
      sz == Max(m_segment_storage.size, Len(r.dir) * k_chunk_size)
  IN [ptr |-> m_segment_storage.segment + r.offset, alloc |-> r.dir,
      size |-> sz,
      asserts |-> r.offset >= 0 /\ r.offset + nbytes <= sz]

\* manager_kernel::allocate, lines 158-166: the pointer it returns, what
\* the allocator and the segment become, and whether its assert()s hold
kernel_allocate(nbytes) ==
  IF m_segment_storage.read_only
    THEN [ptr |-> nullptr, alloc |-> m_segment_memory_allocator,
          size |-> m_segment_storage.size, asserts |-> TRUE]
    ELSE LET r == alloc_allocate(m_segment_memory_allocator, nbytes,
                                 m_segment_storage.capacity)
             sz == Max(m_segment_storage.size, Len(r.dir) * k_chunk_size)
         IN [ptr |-> m_segment_storage.segment + r.offset, alloc |-> r.dir,
             size |-> sz,
             asserts |-> r.offset >= 0 /\ r.offset + nbytes <= sz]

\* the state after the allocator served r
Allocated(r) ==
  /\ m_segment_memory_allocator' = r.alloc
  /\ m_segment_storage' = [m_segment_storage EXCEPT !.size = r.size]

\* ops counts the calls made on a writable store: a call on a read-only
\* store is not counted
Counted == IF m_segment_storage.read_only THEN ops ELSE ops + 1

\* manager_kernel::allocate as a call of its own
allocate(nbytes) ==
  /\ kpc = "ready"
  /\ LET r == kernel_allocate(nbytes)
     IN IF ~r.asserts /\ ~ndebug
          THEN Die("assert", "")
          ELSE /\ Allocated(r)
               /\ disk' = [disk EXCEPT ![m_base_dir_path].size = r.size]
               /\ lastOp' = Op("allocate", "", r.ptr, nbytes, <<>>, <<>>, FALSE)
               /\ ops' = Counted
               /\ UNCHANGED <<kpc, inDtor, ndebug, m_base_dir_path, m_vm_region,
                              m_vm_region_size, m_segment_header,
                              m_segment_header_size, m_named_object_directory,
                              nextUuid, closeLog, closedDir, call>>

\* allocate_aligned without the k_null_offset test of lines 180-182
kernel_allocate_aligned_untested(nbytes, alignment) ==
  LET none == [ptr |-> nullptr, alloc |-> m_segment_memory_allocator,
               size |-> m_segment_storage.size, asserts |-> TRUE]
  IN IF m_segment_storage.read_only THEN none
     ELSE IF alignment > k_chunk_size THEN none
     ELSE LET r == alloc_allocate_aligned(m_segment_memory_allocator, nbytes,
                                          alignment, m_segment_storage.capacity)
              sz == Max(m_segment_storage.size, Len(r.dir) * k_chunk_size)
          IN [ptr |-> m_segment_storage.segment + r.offset, alloc |-> r.dir,
              size |-> sz,
              asserts |-> /\ r.offset >= 0
                          /\ r.offset + nbytes <= sz
                          /\ (m_segment_storage.segment + r.offset)
                                % alignment = 0]

\* manager_kernel::allocate_aligned, lines 171-189: the pointer it returns,
\* what the allocator and the segment become, and whether its assert()s hold
kernel_allocate_aligned(nbytes, alignment) ==
  LET none == [ptr |-> nullptr, alloc |-> m_segment_memory_allocator,
               size |-> m_segment_storage.size, asserts |-> TRUE]
  IN IF m_segment_storage.read_only THEN none
     ELSE IF alignment > k_chunk_size THEN none
     ELSE LET r == alloc_allocate_aligned(m_segment_memory_allocator, nbytes,
                                          alignment, m_segment_storage.capacity)
              sz == Max(m_segment_storage.size, Len(r.dir) * k_chunk_size)
          IN IF r.offset = k_null_offset THEN none
             ELSE [ptr |-> m_segment_storage.segment + r.offset, alloc |-> r.dir,
                   size |-> sz,
                   asserts |-> /\ r.offset >= 0
                               /\ r.offset + nbytes <= sz
                               /\ (m_segment_storage.segment + r.offset)
                                     % alignment = 0]

\* manager_kernel::allocate_aligned as a call of its own
allocate_aligned(nbytes, alignment) ==
  /\ kpc = "ready"
  /\ LET r == kernel_allocate_aligned(nbytes, alignment)
     IN IF ~r.asserts /\ ~ndebug
          THEN Die("assert", "")
          ELSE /\ Allocated(r)
               /\ disk' = [disk EXCEPT ![m_base_dir_path].size = r.size]
               /\ lastOp' = [Op("allocate_aligned", "", r.ptr, nbytes, <<>>,
                                 <<>>, FALSE) EXCEPT !.align = alignment]
               /\ ops' = Counted
               /\ UNCHANGED <<kpc, inDtor, ndebug, m_base_dir_path, m_vm_region,
                              m_vm_region_size, m_segment_header,
                              m_segment_header_size, m_named_object_directory,
                              nextUuid, closeLog, closedDir, call>>

\* deallocate with the read_only test inverted: nothing is freed
kernel_deallocate_skipped(A, addr) ==
  IF ~m_segment_storage.read_only \/ addr = nullptr THEN A
  ELSE alloc_deallocate(A, addr - m_segment_storage.segment)

\* manager_kernel::deallocate, lines 192-198: the allocator afterwards
kernel_deallocate(A, addr) ==
  IF m_segment_storage.read_only \/ addr = nullptr THEN A
  ELSE alloc_deallocate(A, addr - m_segment_storage.segment)

\* the addresses a caller holds from allocate and anonymous construct
RawPointers ==
  {m_segment_storage.segment + a.offset :
     a \in {b \in LiveAllocations(m_segment_memory_allocator) :
              \A k \in DOMAIN m_named_object_directory :
                 m_named_object_directory[k].offset # b.offset}}

deallocate(addr) ==
  /\ kpc = "ready"
  /\ ops' = Counted
  /\ m_segment_memory_allocator' = kernel_deallocate(m_segment_memory_allocator, addr)
  /\ lastOp' = Op("deallocate", "", addr, 0, <<>>, <<>>, FALSE)
  /\ UNCHANGED <<disk, kpc, inDtor, ndebug, m_base_dir_path, m_vm_region,
                 m_vm_region_size, m_segment_header, m_segment_header_size,
                 m_named_object_directory, m_segment_storage, nextUuid, closeLog,
                 closedDir, call>>

\* find that returns the stored offset instead of an address
find_offset(name, T) ==
  IF name.kind = "anonymous" THEN <<nullptr, 0>>
  ELSE IF raw_name(name, T) \notin DOMAIN m_named_object_directory
    THEN <<nullptr, 0>>
  ELSE <<m_named_object_directory[raw_name(name, T)].offset,
         m_named_object_directory[raw_name(name, T)].length>>

\* manager_kernel::find, lines 200-224: the pair it returns
find(name, T) ==
  IF name.kind = "anonymous" THEN <<nullptr, 0>>
  ELSE IF raw_name(name, T) \notin DOMAIN m_named_object_directory
    THEN <<nullptr, 0>>
  ELSE <<m_named_object_directory[raw_name(name, T)].offset
            + m_segment_storage.segment,
         m_named_object_directory[raw_name(name, T)].length>>

\* the units of element i of an array of T at offset
ElementUnits(offset, T, i) ==
  (offset + i * SizeOf(T))..(offset + (i + 1) * SizeOf(T) - 1)

\* memory with elements [0, n) of the array holding v (0: no object)
WithElements(data, offset, T, n, v) ==
  [u \in Units |->
     IF \E i \in 0..(n - 1) : u \in ElementUnits(offset, T, i) THEN v ELSE data[u]]

\* may the process write the num elements at ptr: inside the writable mapping
Writable(ptr, T, num, size) ==
  /\ ~m_segment_storage.read_only
  /\ ptr >= m_segment_storage.segment
  /\ ptr + num * SizeOf(T) <= m_segment_storage.segment + size

UpTo(n) == [i \in 1..n |-> i - 1]
DownFrom(n) == [i \in 1..n |-> n - i]

\* util::array_construct(ptr, num, table): the elements in order; when the
\* initializer of element failAt - 1 throws, the elements built so far are
\* destructed in reverse and the exception leaves the call
array_construct(data, offset, T, num, v, failAt) ==
  IF failAt = 0
    THEN [data |-> WithElements(data, offset, T, num, v), ctors |-> UpTo(num),
          dtors |-> <<>>, exc |-> FALSE]
    ELSE [data |-> WithElements(data, offset, T, failAt - 1, 0),
          ctors |-> UpTo(failAt - 1), dtors |-> DownFrom(failAt - 1),
          exc |-> TRUE]

\* what a construction that ran to its end or to its exception leaves: the
\* allocation (line 561), the entry (lines 564-567) and the written bytes
\* (line 573); nothing is undone when the initializer throws
Constructed(r, anonymous, key, num, data, c) ==
  /\ Allocated(r)
  /\ m_named_object_directory' =
       IF anonymous THEN m_named_object_directory
       ELSE dir_insert(m_named_object_directory, key,
                       r.ptr - m_segment_storage.segment, num)
  /\ disk' = [disk EXCEPT ![m_base_dir_path].size = r.size,
                          ![m_base_dir_path].data = data]
  /\ lastOp' = Op("construct", key, IF c.exc THEN nullptr ELSE r.ptr, num,
                  c.ctors, c.dtors, c.exc)
  /\ ops' = Counted
  /\ UNCHANGED <<kpc, inDtor, ndebug, m_base_dir_path, m_vm_region,
                 m_vm_region_size, m_segment_header, m_segment_header_size,
                 nextUuid, closeLog, closedDir, call>>

\* generic_construct (lines 266-283) past the directory lookup: allocate,
\* insert under the key (named, unique), run the initializer
\* (priv_generic_named_construct, lines 561-576). The pointer is not tested:
\* an initializer run on a pointer outside the writable mapping either
\* faults or touches nothing of the segment
construct_new(anonymous, key, T, num, v, failAt) ==
  LET r == kernel_allocate(num * SizeOf(T))
      offset == r.ptr - m_segment_storage.segment
      c == array_construct(Memory, offset, T, num, v, failAt)
  IN IF ~r.asserts /\ ~ndebug THEN Die("assert", "")
     ELSE IF ~Writable(r.ptr, T, num, r.size)
       THEN \/ Die("segv", "")
            \/ Constructed(r, anonymous, key, num, Memory, c)
     ELSE Constructed(r, anonymous, key, num, c.data, c)

\* construct_found that ignores try2find: the found object is always returned
construct_found_always(key, num, try2find) ==
  /\ lastOp' = Op("construct", key,
                  m_named_object_directory[key].offset + m_segment_storage.segment,
                  num, <<>>, <<>>, FALSE)
  /\ UNCHANGED <<disk, kpc, inDtor, ndebug, kernelVars, nextUuid, closeLog,
                 closedDir, call, ops>>

\* construct_found that returns the stored offset instead of an address
construct_found_offset(key, num, try2find) ==
  /\ lastOp' = Op("construct", key,
                  IF try2find THEN m_named_object_directory[key].offset
                              ELSE nullptr,
                  num, <<>>, <<>>, FALSE)
  /\ UNCHANGED <<disk, kpc, inDtor, ndebug, kernelVars, nextUuid, closeLog,
                 closedDir, call, ops>>

\* priv_generic_named_construct, lines 551-559: the name has an entry
construct_found(key, num, try2find) ==
  /\ lastOp' = Op("construct", key,
                  IF try2find
                    THEN m_named_object_directory[key].offset
                           + m_segment_storage.segment
                    ELSE nullptr,
                  num, <<>>, <<>>, FALSE)
  /\ UNCHANGED <<disk, kpc, inDtor, ndebug, kernelVars, nextUuid, closeLog,
                 closedDir, call, ops>>

\* manager_kernel::generic_construct with priv_generic_named_construct
generic_construct(name, T, num, try2find, v, failAt) ==
  /\ kpc = "ready"
  /\ IF name.kind = "anonymous"
       THEN construct_new(TRUE, "", T, num, v, failAt)
     ELSE IF raw_name(name, T) \in DOMAIN m_named_object_directory
       THEN construct_found(raw_name(name, T), num, try2find)
     ELSE construct_new(FALSE, raw_name(name, T), T, num, v, failAt)

\* manager_kernel::destroy, lines 226-264; the destructor of element
\* failAt - 1 throws (failAt = 0 or beyond the length: none throws). The
\* destructors and the deallocation of an entry that lies outside the
\* writable mapping either fault or touch nothing
destroy(name, T, failAt) ==
  /\ kpc = "ready"
  /\ LET key == raw_name(name, T)
     IN IF \/ m_segment_storage.read_only
           \/ name.kind = "anonymous"
           \/ key \notin DOMAIN m_named_object_directory
          THEN /\ lastOp' = Op("destroy", key, 0, 0, <<>>, <<>>, FALSE)
               /\ UNCHANGED <<disk, kpc, inDtor, ndebug, kernelVars, nextUuid,
                              closeLog, closedDir, call, ops>>
          ELSE LET offset == m_named_object_directory[key].offset
                   length == m_named_object_directory[key].length
                   throws == failAt >= 1 /\ failAt <= length
                   done == IF throws THEN failAt - 1 ELSE length
               IN \/ /\ ~Writable(offset + m_segment_storage.segment, T, length,
                                   m_segment_storage.size)
                     /\ Die("segv", "")
                  \/ /\ ops' = ops + 1
                     /\ m_named_object_directory' =
                          dir_erase(m_named_object_directory, key)
                     /\ disk' = [disk EXCEPT ![m_base_dir_path].data =
                                    WithElements(@, offset, T, done, 0)]
                     /\ m_segment_memory_allocator' =
                          IF throws THEN m_segment_memory_allocator
                          ELSE kernel_deallocate(m_segment_memory_allocator,
                                                 offset + m_segment_storage.segment)
                     /\ lastOp' = Op("destroy", key, IF throws THEN 0 ELSE 1,
                                     length, <<>>, UpTo(done), throws)
                     /\ UNCHANGED <<kpc, inDtor, ndebug, m_base_dir_path,
                                    m_vm_region, m_vm_region_size, m_segment_header,
                                    m_segment_header_size, m_segment_storage,
                                    nextUuid, closeLog, closedDir, call>>

\* ------------------------------------------------------------------------
\* close and the destructor
\* ------------------------------------------------------------------------
Outcome(ok) == IF ok THEN "ok" ELSE "failed"
Released(log, ok) ==
  [log EXCEPT !.release = IF ok /\ log.release # "failed" THEN "ok" ELSE "failed"]

\* close, line 140, entered from the caller (from_dtor = FALSE) or from
\* ~manager_kernel, line 39 (from_dtor = TRUE): priv_initialized decides
close_begin(from_dtor) ==
  /\ kpc \in {"idle", "ready", "closed"}
  /\ IF ~priv_initialized_asserts /\ ~ndebug
       THEN Die("assert", "")
     ELSE IF ~priv_initialized
       THEN /\ kpc' = IF from_dtor THEN "dtor_mark" ELSE kpc
            /\ inDtor' = from_dtor
            /\ lastOp' = Op("close", "", 0, 0, <<>>, <<>>, FALSE)
            /\ UNCHANGED <<disk, ndebug, kernelVars, nextUuid, closeLog, closedDir,
                           call, ops>>
     ELSE /\ kpc' = "close_serialize"
          /\ inDtor' = from_dtor
          /\ closeLog' = [NoCloseLog EXCEPT !.ran = TRUE, !.path = m_base_dir_path]
          /\ closedDir' = IF m_segment_storage.read_only THEN closedDir
                          ELSE [closedDir EXCEPT ![m_base_dir_path] =
                                  m_named_object_directory]
          /\ UNCHANGED <<disk, ndebug, kernelVars, nextUuid, lastOp, call, ops>>

\* priv_serialize_management_data, lines 580-597, called at line 141
close_serialize(okF, okE) ==
  /\ kpc = "close_serialize"
  /\ kpc' = "close_sync"
  /\ IF m_segment_storage.read_only
       THEN /\ closeLog' = [closeLog EXCEPT !.serialize = "skipped"]
            /\ disk' = disk
     ELSE IF ~okF
       THEN /\ closeLog' = [closeLog EXCEPT !.serialize = "failed"]
            /\ disk' = disk
     ELSE /\ closeLog' = [closeLog EXCEPT !.serialize = Outcome(okE)]
          /\ disk' = [disk EXCEPT
               ![m_base_dir_path].ndirOk = TRUE,
               ![m_base_dir_path].ndir = dir_serialize(m_named_object_directory),
               ![m_base_dir_path].nallocOk = IF okE THEN TRUE ELSE @,
               ![m_base_dir_path].nalloc =
                  IF okE THEN alloc_serialize(m_segment_memory_allocator) ELSE @]
  /\ UNCHANGED <<inDtor, ndebug, kernelVars, nextUuid, lastOp, closedDir, call, ops>>

\* close, line 142: m_segment_storage.sync(true)
close_sync(ok) ==
  /\ kpc = "close_sync"
  /\ kpc' = "close_destroy"
  /\ closeLog' = Released(closeLog, ok)
  /\ UNCHANGED <<disk, inDtor, ndebug, kernelVars, nextUuid, lastOp, closedDir, call, ops>>

\* close, line 143: m_segment_storage.destroy()
close_destroy(ok) ==
  /\ kpc = "close_destroy"
  /\ kpc' = "close_header"
  /\ m_segment_storage' = NoSegment
  /\ closeLog' = Released(closeLog, ok)
  /\ UNCHANGED <<disk, inDtor, ndebug, m_base_dir_path, m_vm_region,
                 m_vm_region_size, m_segment_header, m_segment_header_size,
                 m_named_object_directory, m_segment_memory_allocator, nextUuid,
                 lastOp, closedDir, call, ops>>

\* close, line 144: priv_deallocate_segment_header, lines 489-497
close_header(ok) ==
  /\ kpc = "close_header"
  /\ kpc' = "close_vm"
  /\ m_segment_header' = nullptr
  /\ m_segment_header_size' = 0
  /\ closeLog' = Released(closeLog, ok)
  /\ UNCHANGED <<disk, inDtor, ndebug, m_base_dir_path, m_vm_region,
                 m_vm_region_size, m_named_object_directory, m_segment_storage,
                 m_segment_memory_allocator, nextUuid, lastOp, closedDir, call, ops>>

\* close, line 145: priv_release_vm_region, lines 454-466; close returns
close_vm(ok) ==
  /\ kpc = "close_vm"
  /\ kpc' = IF inDtor THEN "dtor_mark" ELSE "closed"
  /\ m_vm_region' = IF ok THEN nullptr ELSE m_vm_region
  /\ m_vm_region_size' = IF ok THEN 0 ELSE m_vm_region_size
  /\ closeLog' = Released(closeLog, ok)
  /\ lastOp' = Op("close", "", 1, 0, <<>>, <<>>, FALSE)
  /\ UNCHANGED <<disk, inDtor, ndebug, m_base_dir_path, m_segment_header,
                 m_segment_header_size, m_named_object_directory,
                 m_segment_storage, m_segment_memory_allocator, nextUuid,
                 closedDir, call, ops>>

\* ~manager_kernel, lines 41-43: priv_mark_properly_closed(m_base_dir_path),
\* then the kernel object is gone
dtor_mark(ok) ==
  /\ kpc = "dtor_mark"
  /\ kpc' = "none"
  /\ inDtor' = FALSE
  /\ disk' = IF ok THEN MarkedDisk(disk, m_base_dir_path) ELSE disk
  /\ closeLog' = [closeLog EXCEPT !.path = m_base_dir_path,
                     !.mark = Outcome(ok /\ disk[m_base_dir_path].ds)]
  /\ FreshKernel
  /\ lastOp' = Op("destroyed", "", 0, 0, <<>>, <<>>, FALSE)
  /\ UNCHANGED <<ndebug, nextUuid, closedDir, call, ops>>

\* ------------------------------------------------------------------------
\* snapshot, copy and remove
\* ------------------------------------------------------------------------
\* priv_serialize_management_data, lines 580-597: the files afterwards (okF,
\* okE: the directory and the allocator file can be written)
priv_serialize_management_data(d, okF, okE) ==
  IF m_segment_storage.read_only \/ ~okF \/ ~d[m_base_dir_path].ds THEN d
  ELSE [d EXCEPT
          ![m_base_dir_path].ndirOk = TRUE,
          ![m_base_dir_path].ndir = dir_serialize(m_named_object_directory),
          ![m_base_dir_path].nallocOk = IF okE THEN TRUE ELSE @,
          ![m_base_dir_path].nalloc =
             IF okE THEN alloc_serialize(m_segment_memory_allocator) ELSE @]

\* priv_copy_data_store whose clone leaves out the properly_closed marker
priv_copy_data_store_unmarked(d, src, dst, ok) ==
  IF ~d[src].ds \/ ~ok THEN [disk |-> d, ret |-> FALSE]
  ELSE [disk |-> [d EXCEPT ![dst] = [d[src] EXCEPT !.marker = FALSE]], ret |-> TRUE]

\* priv_copy_data_store, lines 615-637: the files afterwards and the value
\* returned; util::clone_file leaves src/datastore's files under dst
priv_copy_data_store(d, src, dst, ok) ==
  IF ~d[src].ds \/ ~ok THEN [disk |-> d, ret |-> FALSE]
  ELSE [disk |-> [d EXCEPT ![dst] = d[src]], ret |-> TRUE]

\* snapshot without priv_store_uuid (lines 301-303): the copy keeps the UUID
snapshot_same_uuid(dst, okF, okE, okCopy, okUuid, okMark) ==
  /\ kpc = "ready"
  /\ nextUuid <= MaxUuid
  /\ dst # m_base_dir_path
  /\ LET cp == priv_copy_data_store(
                 priv_serialize_management_data(disk, okF, okE),
                 m_base_dir_path, dst, okCopy)
         stored == cp.ret /\ okUuid
     IN /\ disk' = IF ~stored \/ ~okMark THEN cp.disk
                   ELSE MarkedDisk(cp.disk, dst)
        /\ nextUuid' = IF stored THEN nextUuid + 1 ELSE nextUuid
        /\ lastOp' = Op("snapshot", dst, IF stored /\ okMark THEN 1 ELSE 0, 0,
                        <<>>, <<>>, FALSE)
  /\ UNCHANGED <<kpc, inDtor, ndebug, kernelVars, closeLog, closedDir, call, ops>>

\* manager_kernel::snapshot, lines 291-310
snapshot(dst, okF, okE, okCopy, okUuid, okMark) ==
  /\ kpc = "ready"
  /\ nextUuid <= MaxUuid
  /\ dst # m_base_dir_path
  /\ LET cp == priv_copy_data_store(
                 priv_serialize_management_data(disk, okF, okE),
                 m_base_dir_path, dst, okCopy)
         stored == cp.ret /\ okUuid
     IN /\ disk' = IF ~stored THEN cp.disk
                   ELSE IF ~okMark THEN priv_store_uuid(cp.disk, dst, nextUuid)
                   ELSE MarkedDisk(priv_store_uuid(cp.disk, dst, nextUuid), dst)
        /\ nextUuid' = IF stored THEN nextUuid + 1 ELSE nextUuid
        /\ lastOp' = Op("snapshot", dst, IF stored /\ okMark THEN 1 ELSE 0, 0,
                        <<>>, <<>>, FALSE)
  /\ UNCHANGED <<kpc, inDtor, ndebug, kernelVars, closeLog, closedDir, call, ops>>

\* the process is between two calls of the kernel and no kernel has the
\* store at path mapped
NotMapped(path) ==
  \/ kpc \in {"none", "idle", "closed"}
  \/ kpc = "ready" /\ m_base_dir_path # path

\* manager_kernel::copy, lines 312-316 (static)
copy(src, dst, ok) ==
  /\ src # dst
  /\ NotMapped(dst)
  /\ NotMapped(src) \/ (kpc = "ready" /\ m_segment_storage.read_only)
  /\ LET cp == priv_copy_data_store(disk, src, dst, ok)
     IN /\ disk' = cp.disk
        /\ lastOp' = Op("copy", dst, IF cp.ret THEN 1 ELSE 0, 0, <<>>, <<>>, FALSE)
  /\ UNCHANGED <<kpc, inDtor, ndebug, kernelVars, nextUuid, closeLog, closedDir,
                 call, ops>>

\* manager_kernel::remove, lines 325-328 (static)
remove(path, ok) ==
  /\ NotMapped(path)
  /\ disk' = IF ok THEN priv_remove_data_store(disk, path) ELSE disk
  /\ lastOp' = Op("remove", path, IF ok THEN 1 ELSE 0, 0, <<>>, <<>>, FALSE)
  /\ UNCHANGED <<kpc, inDtor, ndebug, kernelVars, nextUuid, closeLog, closedDir,
                 call, ops>>

\* a kill of the process at any point of the kernel's life
Crash ==
  /\ kpc # "none"
  /\ Die("killed", "")

\* object operations are followed in one mapping and with one constructor
\* argument: no operation of an open kernel reads either
ObjVmAddrs == {100}
ObjVals == {1}

\* the steps of create
CreateSteps(addrs) ==
  \/ UNCHANGED thr /\ \E path \in Paths, size \in ReserveSizes, page_ok \in BOOLEAN :
                           create_begin(path, size, page_ok)
  \/ UNCHANGED thr /\ \E ok \in BOOLEAN : create_unmark(ok)
  \/ UNCHANGED thr /\ \E ok \in BOOLEAN : create_initdir(ok)
  \/ UNCHANGED thr /\ \E region \in addrs \cup {nullptr} : create_reserve(region)
  \/ UNCHANGED thr /\ create_header
  \/ UNCHANGED thr /\ \E ok \in BOOLEAN : create_segment(ok)
  \/ UNCHANGED thr /\ \E ok \in BOOLEAN : create_uuid(ok)

\* the steps of open
OpenSteps(paths, addrs) ==
  \/ UNCHANGED thr /\ \E path \in paths, ro \in BOOLEAN, size \in OpenReserveSizes :
        open_begin(path, ro, size)
  \/ UNCHANGED thr /\ \E region \in addrs \cup {nullptr} : open_reserve(region)
  \/ UNCHANGED thr /\ open_header
  \/ UNCHANGED thr /\ \E ok \in BOOLEAN : open_unmark(ok)
  \/ UNCHANGED thr /\ \E ok \in BOOLEAN : open_segment(ok)
  \/ UNCHANGED thr /\ \E ok \in BOOLEAN : open_deserialize(ok)

\* the steps of close and of the destructor
CloseSteps ==
  \/ UNCHANGED thr /\ \E from_dtor \in BOOLEAN : close_begin(from_dtor)
  \/ UNCHANGED thr /\ \E okF, okE \in BOOLEAN : close_serialize(okF, okE)
  \/ UNCHANGED thr /\ \E ok \in BOOLEAN : close_sync(ok)
  \/ UNCHANGED thr /\ \E ok \in BOOLEAN : close_destroy(ok)
  \/ UNCHANGED thr /\ \E ok \in BOOLEAN : close_header(ok)
  \/ UNCHANGED thr /\ \E ok \in BOOLEAN : close_vm(ok)
  \/ UNCHANGED thr /\ \E ok \in BOOLEAN : dtor_mark(ok)

\* the requests of allocate_aligned: (nbytes, alignment) with each power of
\* two up to the chunk size, zero, and an alignment beyond the chunk size
AlignedRequests ==
  {<<1, 1>>, <<k_chunk_size, k_chunk_size>>, <<1, 0>>,
   <<2 * k_chunk_size, 2 * k_chunk_size>>}

\* is there room for one more counted call
Room(max) == m_segment_storage.read_only \/ ops < max

\* the call sites exercised across whole lifecycles
LifeSites == {c \in CallSites : c[1].kind = "named" \/ c[2] = "short"}

\* whole lifecycles: any number of processes creating, opening, closing,
\* destroying and being killed, with a few objects constructed and destroyed;
\* the raw allocation calls are made on the read-only openings (NextObj makes
\* them on writable stores)
Next ==
  \/ UNCHANGED thr /\ NewKernel
  \/ CreateSteps(VmAddrs)
  \/ OpenSteps(Paths, VmAddrs)
  \/ UNCHANGED thr /\ \E c \in LifeSites, try2find \in BOOLEAN, v \in ObjVals :
        /\ raw_name(c[1], c[2]) \notin DOMAIN m_named_object_directory => Room(MaxOps)
        /\ generic_construct(c[1], c[2], 1, try2find, v, 0)
  \/ UNCHANGED thr /\ \E c \in LifeSites : Room(MaxOps) /\ destroy(c[1], c[2], 0)
  \/ UNCHANGED thr /\ m_segment_storage.read_only /\ allocate(1)
  \/ UNCHANGED thr /\ \E q \in AlignedRequests :
        m_segment_storage.read_only /\ allocate_aligned(q[1], q[2])
  \/ UNCHANGED thr /\ \E addr \in RawPointers \cup {nullptr} :
        m_segment_storage.read_only /\ deallocate(addr)
  \/ CloseSteps
  \/ UNCHANGED thr /\ Crash

Spec == Init /\ [][Next]_vars

\* has the key of the call site an entry (the lookups at lines 214-219,
\* 242-245 and 551)
HasEntry(c) ==
  c[1].kind # "anonymous" /\ raw_name(c[1], c[2]) \in DOMAIN m_named_object_directory

\* object operations: processes that create a store and work on it, with
\* every kind, type, count and failing initializer or destructor. A call is
\* taken once for the arguments it reads: the found branch reads neither
\* initializer nor failure, the branch that builds the object does not read
\* try2find, and no destructor runs beyond the stored length.
NextObj ==
  \/ UNCHANGED thr /\ NewKernel
  \/ CreateSteps(ObjVmAddrs)
  \/ UNCHANGED thr /\ \E nbytes \in {1, k_chunk_size + 1} : ops < MaxObjOps /\ allocate(nbytes)
  \/ UNCHANGED thr /\ \E q \in AlignedRequests : ops < MaxObjOps /\ allocate_aligned(q[1], q[2])
  \/ UNCHANGED thr /\ \E addr \in RawPointers \cup {nullptr} : ops < MaxObjOps /\ deallocate(addr)
  \/ UNCHANGED thr /\ \E c \in CallSites, num \in Counts, try2find \in BOOLEAN, v \in ObjVals,
        failAt \in 0..MaxCount :
        /\ ops < MaxObjOps
        /\ IF HasEntry(c) THEN failAt = 0 ELSE ~try2find /\ failAt <= num
        /\ generic_construct(c[1], c[2], num, try2find, v, failAt)
  \/ UNCHANGED thr /\ \E c \in CallSites, failAt \in 0..MaxCount :
        /\ ops < MaxObjOps
        /\ IF HasEntry(c) THEN failAt <= m_named_object_directory[raw_name(c[1], c[2])].length
                          ELSE failAt = 0
        /\ destroy(c[1], c[2], failAt)

SpecObj == Init /\ [][NextObj]_vars

\* the call sites exercised on stores that are copied
SnapSites == {c \in CallSites : c[1].kind = "named"}

\* stores and their copies: lifecycles on the path of the store and on the
\* path snapshots and copies are written to. The static calls are made
\* while the process has no kernel object; the kernel is closed by its
\* destructor, every step succeeding, or the process is killed with the
\* store open
NextSnap ==
  \/ UNCHANGED thr /\ NewKernel
  \/ CreateSteps(ObjVmAddrs)
  \/ OpenSteps(Paths \cup SnapPaths, ObjVmAddrs)
  \/ UNCHANGED thr /\ \E c \in SnapSites, v \in ObjVals :
        /\ ~HasEntry(c)
        /\ Room(MaxOps)
        /\ generic_construct(c[1], c[2], 1, FALSE, v, 0)
  \/ UNCHANGED thr /\ \E c \in SnapSites : HasEntry(c) /\ Room(MaxOps) /\ destroy(c[1], c[2], 0)
  \/ UNCHANGED thr /\ \E dst \in SnapPaths, okS, okCopy, okUuid, okMark \in BOOLEAN :
        snapshot(dst, okS, okS, okCopy, okUuid, okMark)
  \/ UNCHANGED thr /\ \E src \in Paths, dst \in SnapPaths, ok \in BOOLEAN :
        kpc = "none" /\ copy(src, dst, ok)
  \/ UNCHANGED thr /\ \E path \in Paths \cup SnapPaths, ok \in BOOLEAN :
        kpc = "none" /\ remove(path, ok)
  \/ UNCHANGED thr /\ close_begin(TRUE)
  \/ UNCHANGED thr /\ close_serialize(TRUE, TRUE)
  \/ UNCHANGED thr /\ close_sync(TRUE)
  \/ UNCHANGED thr /\ close_destroy(TRUE)
  \/ UNCHANGED thr /\ close_header(TRUE)
  \/ UNCHANGED thr /\ close_vm(TRUE)
  \/ UNCHANGED thr /\ dtor_mark(TRUE)
  \/ UNCHANGED thr /\ kpc = "ready" /\ Crash

SpecSnap == Init /\ [][NextSnap]_vars

\* ------------------------------------------------------------------------
\* Threads of one process on one kernel: each call in the steps between its
\* lock acquisitions. F is m_named_object_directory_mutex, E the lock of the
\* segment allocator
\* ------------------------------------------------------------------------
MaxThrCalls == 3        \* calls the threads of one process make

\* the named object the threads work on, with one element
ThrSite == CHOOSE c \in CallSites : c[1].kind = "named"

\* what the steps of a call leave alone
threadFrame == <<kpc, inDtor, ndebug, m_base_dir_path, m_vm_region, m_vm_region_size,
                 m_segment_header, m_segment_header_size, nextUuid, lastOp,
                 closeLog, closedDir, call>>

\* std::mutex::owns: the thread is inside a lock_guard of the mutex
Holds(t, m) == \E i \in 1..Len(Th(t).held) : Th(t).held[i] = m

\* the call of thread t returns (or throws): its lock_guards are destructed
Returned(t, ret, len, inits, exc) ==
  [thr EXCEPT ![t] = <<[Th(t) EXCEPT !.pc = "done", !.held = <<>>, !.ret = ret,
                                      !.len = len, !.inits = inits, !.exc = exc]>>]

\* a fault or a failed assert in one thread ends the process
ThreadDie(why) == Die(why, "") /\ thr' = NoThreads

\* destroy that leaves the entry in the directory
destroy_erase_skipped(D, key) == D

\* destroy, line 250: m_named_object_directory.erase(iterator), before the
\* destructors run
destroy_erase(D, key) == dir_erase(D, key)

\* thread t enters construct / find_or_construct, find, destroy (up to the
\* lock_guard of lines 211, 239, 548) or allocate, deallocate (up to the
\* allocator's lock)
call_begin(t, op, key, try2find, failAt, addr) ==
  /\ kpc = "ready"
  /\ Th(t).pc \in {"idle", "done"}
  /\ ops' = ops + 1
  /\ thr' = [thr EXCEPT ![t] = <<
       [pc |-> IF op \in {"allocate", "deallocate"} THEN "lockE" ELSE "lockF",
        held |-> <<>>, op |-> op, try2find |-> try2find, failAt |-> failAt,
        addr |-> addr, ret |-> nullptr, len |-> 0, inits |-> 0, exc |-> FALSE,
        conc |-> \E u \in Threads \ {t} : Th(u).pc \notin {"idle", "done"},
        key |-> key, had |-> key \in DOMAIN m_named_object_directory,
        seq |-> ops]>>]
  /\ UNCHANGED <<disk, kernelVars, threadFrame>>

\* lock_guard_type guard(m_named_object_directory_mutex) that does not wait
lock_guard_disabled(t) ==
  /\ kpc = "ready"
  /\ Th(t).pc = "lockF"
  /\ thr' = [thr EXCEPT ![t] = <<[Th(t) EXCEPT !.held = Append(@, "F"),
                                            !.pc = "directory"]>>]
  /\ UNCHANGED <<disk, kernelVars, threadFrame, ops>>

\* lock_guard_type guard(m_named_object_directory_mutex), lines 211, 239, 548:
\* the thread waits until no thread holds the mutex
lock_guard(t) ==
  /\ kpc = "ready"
  /\ Th(t).pc = "lockF"
  /\ \A u \in Threads : ~Holds(u, "F")
  /\ thr' = [thr EXCEPT ![t] = <<[Th(t) EXCEPT !.held = Append(@, "F"),
                                            !.pc = "directory"]>>]
  /\ UNCHANGED <<disk, kernelVars, threadFrame, ops>>

\* the allocator's single lock, taken inside allocate and deallocate
allocator_lock(t) ==
  /\ kpc = "ready"
  /\ Th(t).pc = "lockE"
  /\ \A u \in Threads : ~Holds(u, "E")
  /\ thr' = [thr EXCEPT ![t] = <<[Th(t) EXCEPT !.held = Append(@, "E"),
                                            !.pc = "heap"]>>]
  /\ UNCHANGED <<disk, kernelVars, threadFrame, ops>>

\* under F, up to the call of allocate or deallocate: find (lines 214-223),
\* priv_generic_named_construct (lines 550-561), destroy (lines 242-259)
directory_step(t) ==
  /\ kpc = "ready"
  /\ Th(t).pc = "directory"
  /\ LET key == Th(t).key
         found == key \in DOMAIN m_named_object_directory
         f == IF found THEN <<m_named_object_directory[key].offset
                                + m_segment_storage.segment,
                              m_named_object_directory[key].length>>
              ELSE <<nullptr, 0>>
         throws == Th(t).failAt >= 1 /\ Th(t).failAt <= f[2]
         done == IF throws THEN Th(t).failAt - 1 ELSE f[2]
     IN IF Th(t).op = "construct" /\ ~found
          THEN /\ thr' = [thr EXCEPT ![t] = <<[Th(t) EXCEPT !.pc = "lockE"]>>]
               /\ UNCHANGED <<disk, kernelVars, threadFrame, ops>>
        ELSE IF Th(t).op = "destroy" /\ found
          THEN \/ /\ ~Writable(f[1], ThrSite[2], f[2], m_segment_storage.size)
                  /\ ThreadDie("segv")
               \/ /\ m_named_object_directory' =
                       destroy_erase(m_named_object_directory, key)
                  /\ disk' = [disk EXCEPT ![m_base_dir_path].data =
                       WithElements(@, f[1] - m_segment_storage.segment, ThrSite[2],
                                    done, 0)]
                  /\ thr' = IF throws THEN Returned(t, 0, f[2], done, TRUE)
                            ELSE [thr EXCEPT ![t] =
                                    <<[Th(t) EXCEPT !.pc = "lockE", !.addr = f[1],
                                                    !.len = f[2], !.inits = done]>>]
                  /\ UNCHANGED <<m_base_dir_path, m_vm_region, m_vm_region_size,
                                 m_segment_header, m_segment_header_size,
                                 m_segment_storage, m_segment_memory_allocator,
                                 threadFrame, ops>>
        ELSE /\ thr' = Returned(t, IF Th(t).op = "construct" /\ ~Th(t).try2find
                                     THEN nullptr
                                   ELSE IF Th(t).op = "destroy" THEN 0 ELSE f[1],
                                f[2], 0, FALSE)
             /\ UNCHANGED <<disk, kernelVars, threadFrame, ops>>

\* allocate or deallocate that goes on to the directory with the allocator's
\* lock held
heap_step_then_directory(t) ==
  /\ kpc = "ready"
  /\ Th(t).pc = "heap"
  /\ thr' = [thr EXCEPT ![t] = <<[Th(t) EXCEPT !.pc = "lockF"]>>]
  /\ UNCHANGED <<disk, kernelVars, threadFrame, ops>>

\* under E: allocate (lines 155-166) or deallocate (lines 191-198), called by
\* the thread itself or from construct (line 561) and destroy (line 259);
\* E is released when the allocator returns, F when destroy returns
heap_step(t) ==
  /\ kpc = "ready"
  /\ Th(t).pc = "heap"
  /\ IF Th(t).op \in {"construct", "allocate"}
       THEN LET r == kernel_allocate(SizeOf(ThrSite[2]))
            IN IF ~r.asserts /\ ~ndebug THEN ThreadDie("assert")
               ELSE /\ Allocated(r)
                    /\ disk' = [disk EXCEPT ![m_base_dir_path].size = r.size]
                    /\ thr' = IF Th(t).op = "allocate"
                                THEN Returned(t, r.ptr, 0, 0, FALSE)
                                ELSE [thr EXCEPT ![t] =
                                        <<[Th(t) EXCEPT !.pc = "insert",
                                                        !.addr = r.ptr,
                                                        !.held = <<"F">>]>>]
                    /\ UNCHANGED <<m_base_dir_path, m_vm_region, m_vm_region_size,
                                   m_segment_header, m_segment_header_size,
                                   m_named_object_directory, threadFrame, ops>>
       ELSE /\ m_segment_memory_allocator' =
                 kernel_deallocate(m_segment_memory_allocator, Th(t).addr)
            /\ thr' = Returned(t, IF Th(t).op = "destroy" THEN 1 ELSE 0, Th(t).len,
                               Th(t).inits, FALSE)
            /\ UNCHANGED <<disk, m_base_dir_path, m_vm_region, m_vm_region_size,
                           m_segment_header, m_segment_header_size,
                           m_named_object_directory, m_segment_storage,
                           threadFrame, ops>>

\* priv_generic_named_construct, lines 563-571, still under F: the insertion
\* and its test
insert_step(t) ==
  /\ kpc = "ready"
  /\ Th(t).pc = "insert"
  /\ IF Th(t).key \in DOMAIN m_named_object_directory
       THEN /\ thr' = Returned(t, nullptr, 0, 0, FALSE)
            /\ UNCHANGED <<disk, kernelVars, threadFrame, ops>>
       ELSE /\ m_named_object_directory' =
                 dir_insert(m_named_object_directory, Th(t).key,
                            Th(t).addr - m_segment_storage.segment, 1)
            /\ thr' = [thr EXCEPT ![t] = <<[Th(t) EXCEPT !.pc = "init"]>>]
            /\ UNCHANGED <<disk, m_base_dir_path, m_vm_region, m_vm_region_size,
                           m_segment_header, m_segment_header_size,
                           m_segment_storage, m_segment_memory_allocator,
                           threadFrame, ops>>

\* priv_generic_named_construct, lines 573-576: util::array_construct runs
\* the user's initializer on the new object inside the guarded block, then
\* the block ends and the pointer is returned
init_step(t) ==
  /\ kpc = "ready"
  /\ Th(t).pc = "init"
  /\ \/ /\ ~Writable(Th(t).addr, ThrSite[2], 1, m_segment_storage.size)
        /\ ThreadDie("segv")
     \/ /\ disk' = IF Writable(Th(t).addr, ThrSite[2], 1, m_segment_storage.size)
                      THEN [disk EXCEPT ![m_base_dir_path].data =
                              WithElements(@, Th(t).addr - m_segment_storage.segment,
                                           ThrSite[2], 1, 1)]
                      ELSE disk
        /\ thr' = Returned(t, Th(t).addr, 1, 1, FALSE)
        /\ UNCHANGED <<kernelVars, threadFrame, ops>>

\* threads on a store the process created: each thread makes one call after
\* the other, the calls of different threads interleave at the locks
NextThr ==
  \/ UNCHANGED thr /\ NewKernel
  \/ CreateSteps(ObjVmAddrs)
  \/ \E t \in Threads, try2find \in BOOLEAN :
        /\ ops < MaxThrCalls
        /\ call_begin(t, "construct", raw_name(ThrSite[1], ThrSite[2]), try2find, 0,
                      nullptr)
  \/ \E t \in Threads, key \in {raw_name(ThrSite[1], ThrSite[2]), TypeIdName(ThrSite[2])} :
        ops < MaxThrCalls /\ call_begin(t, "find", key, FALSE, 0, nullptr)
  \/ \E t \in Threads, failAt \in 0..1 :
        /\ ops < MaxThrCalls
        /\ call_begin(t, "destroy", raw_name(ThrSite[1], ThrSite[2]), FALSE, failAt,
                      nullptr)
  \/ \E t \in Threads :
        ops < MaxThrCalls /\ call_begin(t, "allocate", "", FALSE, 0, nullptr)
  \/ \E t \in Threads :
        /\ ops < MaxThrCalls
        /\ Th(t).op = "allocate"
        /\ call_begin(t, "deallocate", "", FALSE, 0, Th(t).ret)
  \/ \E t \in Threads : lock_guard(t)
  \/ \E t \in Threads : allocator_lock(t)
  \/ \E t \in Threads : directory_step(t)
  \/ \E t \in Threads : heap_step(t)
  \/ \E t \in Threads : insert_step(t)
  \/ \E t \in Threads : init_step(t)

SpecThr == Init /\ [][NextThr]_vars

\* ------------------------------------------------------------------------
\* basic_manager: the facade over the kernel
\* ------------------------------------------------------------------------
\* the facade's m_kernel is not null: a kernel exists and is not being
\* destroyed (m_kernel.reset(nullptr) nulls the pointer, then deletes)
m_kernel == kpc # "none" /\ ~inDtor

\* manager_kernel::good: the kernel was initialized by create or open
good == kpc = "ready"

\* basic_manager::check_sanity
check_sanity == m_kernel /\ good

\* the operations of the facade whose catch block resets m_kernel, and those
\* whose catch block only logs
MutatingOps ==
  {"allocate", "allocate_aligned", "deallocate", "flush", "snapshot",
   "set_description", "set_instance_description"}
QueryOps ==
  {"find", "get_instance_name", "get_instance_kind", "get_instance_length",
   "all_memory_deallocated", "get_uuid", "get_description", "read_only"}

\* what each operation returns when check_sanity fails and after its catch
\* block (void: 0, false: 0, the empty string: 0, true: 1)
Sentinel ==
  [fn \in MutatingOps \cup QueryOps |-> IF fn = "read_only" THEN 1 ELSE nullptr]

\* a catch block that only logs
catch_logs(fn) == FALSE

\* does the catch block of fn call m_kernel.reset(nullptr)
catch_resets(fn) == fn \in MutatingOps

\* the call of the kernel inside the try block, when nothing is thrown; the
\* kernel's side of the description and instance operations is not followed:
\* they return some value
kernel_call(fn) ==
  CASE fn = "allocate" -> allocate(1)
    [] fn = "allocate_aligned" -> allocate_aligned(1, 1)
    [] fn = "deallocate" -> \E addr \in RawPointers \cup {nullptr} : deallocate(addr)
    [] fn = "snapshot" ->
         \E dst \in SnapPaths, ok \in BOOLEAN : snapshot(dst, TRUE, TRUE, ok, ok, ok)
    [] OTHER ->
         /\ \E r \in {0, 1} :
               lastOp' = Op(fn, "",
                            CASE fn = "find" -> find(ThrSite[1], ThrSite[2])[1]
                              [] fn = "get_uuid" -> disk[m_base_dir_path].uuid
                              [] fn = "read_only" ->
                                   IF m_segment_storage.read_only THEN 1 ELSE 0
                              [] fn = "all_memory_deallocated" ->
                                   IF all_memory_deallocated(m_segment_memory_allocator)
                                     THEN 1 ELSE 0
                              [] fn = "flush" -> 0
                              [] OTHER -> r,
                            0, <<>>, <<>>, FALSE)
         /\ UNCHANGED <<disk, kpc, inDtor, ndebug, kernelVars, nextUuid, closeLog,
                        closedDir, call, ops>>

\* one operation of the facade: the check_sanity test, the try block and the
\* catch block (exc: an exception escapes the kernel)
facade_call(fn, exc) ==
  /\ ~inDtor
  /\ kpc \in {"none", "idle", "ready"}
  /\ IF ~check_sanity
       THEN /\ lastOp' = Op(fn, "", Sentinel[fn], 0, <<>>, <<>>, FALSE)
            /\ UNCHANGED <<disk, kpc, inDtor, ndebug, kernelVars, nextUuid, closeLog,
                           closedDir, call, ops>>
     ELSE IF exc
       THEN /\ inDtor' = catch_resets(fn)
            /\ lastOp' = Op(fn, "", Sentinel[fn], 0, <<>>, <<>>, TRUE)
            /\ UNCHANGED <<disk, kpc, ndebug, kernelVars, nextUuid, closeLog,
                           closedDir, call, ops>>
     ELSE kernel_call(fn)

\* a facade over a store: its constructors, its operations with and without
\* an exception, the destruction of its kernel (by the facade's destructor
\* or by m_kernel.reset) and a kill
NextFacade ==
  \/ UNCHANGED thr /\ NewKernel
  \/ CreateSteps(ObjVmAddrs)
  \/ OpenSteps(Paths, ObjVmAddrs)
  \/ UNCHANGED thr /\ \E fn \in MutatingOps \cup QueryOps, exc \in BOOLEAN :
        /\ (check_sanity /\ ~exc) => ops < MaxOps
        /\ facade_call(fn, exc)
  \/ UNCHANGED thr /\ kpc = "ready" /\ close_begin(TRUE)
  \/ UNCHANGED thr /\ close_serialize(TRUE, TRUE)
  \/ UNCHANGED thr /\ \E ok \in BOOLEAN : close_sync(ok)
  \/ UNCHANGED thr /\ close_destroy(TRUE)
  \/ UNCHANGED thr /\ close_header(TRUE)
  \/ UNCHANGED thr /\ close_vm(TRUE)
  \/ UNCHANGED thr /\ \E ok \in BOOLEAN : dtor_mark(ok)
  \/ UNCHANGED thr /\ Crash

SpecFacade == Init /\ [][NextFacade]_vars

\* ------------------------------------------------------------------------
\* Properties
\* ------------------------------------------------------------------------
\* a close ran on a writable store and every step of it succeeded
CloseSucceeded ==
  closeLog.ran /\ closeLog.serialize = "ok" /\ closeLog.release = "ok"

\* C1: once close() has returned from a writable session with every step
\* succeeding, the properly_closed mark exists (consistent(path) is true),
\* the kernel object still being alive.
C1_MarkedAfterClose ==
  (kpc = "closed" /\ CloseSucceeded) => consistent(closeLog.path)

\* the process is inside a writable session: past create's first change to
\* the datastore, or past the return of a writable open, and the destructor
\* has not written the mark yet
InWritableSession ==
  \/ kpc \in {"create_initdir", "create_reserve", "create_header",
              "create_segment", "create_uuid"}
  \/ /\ kpc \in {"ready", "close_serialize", "close_sync", "close_destroy"}
     /\ ~m_segment_storage.read_only
  \/ /\ kpc \in {"close_header", "close_vm", "closed", "dtor_mark"}
     /\ closeLog.ran
     /\ closeLog.serialize # "skipped"

\* C2: at every point of a writable session, from create's first change to
\* the datastore or from the return of a writable open until the mark is
\* written at the very end, the properly_closed mark is absent, and a kill
\* of the process at such a point leaves consistent(path) false.
C2_MarkAbsentInSession ==
  [][InWritableSession =>
       /\ ~consistent(m_base_dir_path)
       /\ (kpc' = "none" /\ lastOp'.op = "killed")
             => ~(disk'[m_base_dir_path].ds /\ disk'[m_base_dir_path].marker)]_vars

C2_Witness ==
  /\ kpc = "ready"
  /\ lastOp.op = "construct"
  /\ ~m_segment_storage.read_only
  /\ disk[m_base_dir_path].ndirOk
  /\ ~consistent(m_base_dir_path)

\* C3: the mark is written only if the serialization, the sync, the segment
\* destroy and the header and VM release of the close before it all
\* succeeded: where a close ended with the mark written, none of its steps
\* had failed.
C3_MarkImpliesSuccess ==
  (closeLog.ran /\ closeLog.mark = "ok")
    => (closeLog.serialize # "failed" /\ closeLog.release # "failed")

\* C4: open, writable or read-only, of an existing datastore without the
\* properly_closed mark aborts with inconsistent_datastore at once: no VM
\* region, no segment, no directory, the files untouched; and open goes on
\* to reserve the VM region only with the mark in place.
C4_OpenInconsistentAborts ==
  [][/\ \A path \in Paths, ro \in BOOLEAN, size \in OpenReserveSizes :
          (open_begin(path, ro, size) /\ openable(path) /\ ~priv_properly_closed(path))
            => /\ kpc' = "none"
               /\ lastOp' = Op("abort", "inconsistent_datastore", 0, 0, <<>>, <<>>, FALSE)
               /\ disk' = disk
               /\ m_vm_region' = nullptr
               /\ m_segment_storage' = NoSegment
               /\ m_named_object_directory' = EmptyDir
     /\ kpc' \in {"open_reserve", "open_header", "open_unmark"}
          => priv_properly_closed(m_base_dir_path')]_vars

C4_Witness ==
  /\ kpc = "none"
  /\ lastOp.op = "abort"
  /\ lastOp.key = "inconsistent_datastore"
  /\ \E path \in Paths : openable(path) /\ ~consistent(path)

\* what find returns for a call site when the directory is D
ExpectedFind(D, c) ==
  IF c[1].kind = "anonymous" \/ raw_name(c[1], c[2]) \notin DOMAIN D
    THEN <<nullptr, 0>>
    ELSE <<D[raw_name(c[1], c[2])].offset + m_segment_storage.segment,
           D[raw_name(c[1], c[2])].length>>

\* C5: round trip: when a store is opened again, find returns, for exactly
\* the names the directory held when the store was last closed, the same
\* offset from the segment base and the same length, and not-found for
\* every other name.
C5_RoundTrip ==
  (kpc = "ready" /\ lastOp.op = "open" /\ lastOp.ret = 1)
    => \A c \in CallSites :
         find(c[1], c[2]) = ExpectedFind(closedDir[m_base_dir_path], c)

\* C6: a second close() on a closed kernel is a no-op: no failed assertion,
\* the kernel and the files as the first close left them.
C6_SecondCloseNoOp ==
  [][(kpc = "closed" /\ close_begin(FALSE))
       => /\ kpc' = "closed"
          /\ lastOp'.op = "close"
          /\ disk' = disk
          /\ UNCHANGED kernelVars]_vars

\* the step is a call of op for the key of call site c with count num
\* (what every call records of itself: a cheap test that spares evaluating
\* the call against the steps of other calls)
Called(op, c, num) ==
  /\ kpc = "ready"
  /\ lastOp'.op = op
  /\ lastOp'.key = raw_name(c[1], c[2])
  /\ lastOp'.len = num

\* C7: construct (try2find = FALSE) under a key that has an entry returns
\* null, allocates nothing, runs no initializer and leaves the entry and the
\* memory as they were.
C7_ConstructNameInUse ==
  [][\A c \in CallSites, num \in Counts :
       (HasEntry(c) /\ Called("construct", c, num)) =>
         \A v \in ObjVals, failAt \in 0..MaxCount :
            generic_construct(c[1], c[2], num, FALSE, v, failAt)
              => /\ lastOp'.ret = nullptr
                 /\ lastOp'.ctors = <<>>
                 /\ ~lastOp'.exc
                 /\ m_segment_memory_allocator' = m_segment_memory_allocator
                 /\ m_named_object_directory' = m_named_object_directory
                 /\ m_segment_storage' = m_segment_storage
                 /\ disk' = disk]_vars

C7_Witness ==
  /\ kpc = "ready"
  /\ lastOp.op = "construct"
  /\ lastOp.ret = nullptr
  /\ ~lastOp.exc
  /\ lastOp.key \in DOMAIN m_named_object_directory
  /\ m_named_object_directory[lastOp.key].length # lastOp.len

\* C8: find_or_construct under a key that has an entry returns the address
\* of the existing object, segment base plus stored offset, whatever count
\* is asked for, and allocates nothing, runs no initializer and leaves the
\* entry, its length and the memory as they were.
C8_FindOrConstructFound ==
  [][\A c \in CallSites, num \in Counts :
       (HasEntry(c) /\ Called("construct", c, num)) =>
         \A v \in ObjVals, failAt \in 0..MaxCount :
            generic_construct(c[1], c[2], num, TRUE, v, failAt)
              => /\ lastOp'.ret = m_segment_storage.segment
                                    + m_named_object_directory[raw_name(c[1], c[2])].offset
                 /\ lastOp'.ctors = <<>>
                 /\ ~lastOp'.exc
                 /\ m_segment_memory_allocator' = m_segment_memory_allocator
                 /\ m_named_object_directory' = m_named_object_directory
                 /\ m_segment_storage' = m_segment_storage
                 /\ disk' = disk]_vars

C8_Witness ==
  /\ kpc = "ready"
  /\ lastOp.op = "construct"
  /\ lastOp.ret # nullptr
  /\ lastOp.ctors = <<>>
  /\ ~lastOp.exc
  /\ lastOp.key \in DOMAIN m_named_object_directory
  /\ m_named_object_directory[lastOp.key].length # lastOp.len
  /\ lastOp.ret = m_segment_storage.segment
                     + m_named_object_directory[lastOp.key].offset

\* the step destroys the object of the key
DestroysKey(key) ==
  lastOp'.op = "destroy" /\ lastOp'.key = key /\ ops' = ops + 1

\* C9: once a named or unique construct of count elements has built the
\* object and returned its address p, find under the key returns (p, count),
\* and goes on returning it until the object is destroyed; find under a key
\* without entry and find for the anonymous kind return (null, 0).
C9_FindAfterConstruct ==
  [][\A c \in CallSites :
       /\ \A num \in Counts :
            (/\ c[1].kind # "anonymous"
             /\ ~HasEntry(c)
             /\ Called("construct", c, num)
             /\ kpc' = "ready"
             /\ lastOp'.ret # nullptr) =>
               \A try2find \in BOOLEAN, v \in ObjVals, failAt \in 0..MaxCount :
                  generic_construct(c[1], c[2], num, try2find, v, failAt)
                    => find(c[1], c[2])' = <<lastOp'.ret, num>>
       /\ (/\ find(c[1], c[2]) # <<nullptr, 0>>
           /\ kpc' = "ready"
           /\ ~DestroysKey(raw_name(c[1], c[2])))
             => find(c[1], c[2])' = find(c[1], c[2])
       /\ ~HasEntry(c) => find(c[1], c[2]) = <<nullptr, 0>>]_vars

C9_Witness ==
  /\ kpc = "ready"
  /\ lastOp.op = "allocate"
  /\ \E c \in CallSites :
       /\ find(c[1], c[2])[1] # nullptr
       /\ find(c[1], c[2])[2] = MaxCount
  /\ \E c \in CallSites :
       c[1].kind # "anonymous" /\ find(c[1], c[2]) = <<nullptr, 0>>

\* the allocation at offset is live in directory A
LiveAt(A, offset) == \E a \in LiveAllocations(A) : a.offset = offset

\* C10: destroy under a key without entry, or for the anonymous kind, returns
\* false and changes nothing; under a key with an entry it returns true, and
\* then find under the key returns (null, 0), the destructor has run exactly
\* once on each of the entry's length elements, and the object's allocation
\* is no longer live.
C10_Destroy ==
  [][\A c \in CallSites :
       (kpc = "ready" /\ lastOp'.op = "destroy" /\ lastOp'.key = raw_name(c[1], c[2])) =>
         \A failAt \in 0..MaxCount :
            destroy(c[1], c[2], failAt) =>
              IF ~HasEntry(c)
                THEN /\ lastOp'.ret = 0
                     /\ lastOp'.dtors = <<>>
                     /\ disk' = disk
                     /\ UNCHANGED kernelVars
                ELSE (~m_segment_storage.read_only /\ ~lastOp'.exc) =>
                     LET e == m_named_object_directory[raw_name(c[1], c[2])]
                     IN /\ lastOp'.ret = 1
                        /\ find(c[1], c[2])' = <<nullptr, 0>>
                        /\ lastOp'.dtors = UpTo(e.length)
                        /\ ~LiveAt(m_segment_memory_allocator', e.offset)
                        /\ Writable(e.offset + m_segment_storage.segment, c[2],
                                    e.length, m_segment_storage.size) =>
                             /\ \A i \in 0..(e.length - 1) :
                                  \A u \in ElementUnits(e.offset, c[2], i) :
                                     Memory'[u] = 0
                             /\ LiveAt(m_segment_memory_allocator, e.offset)]_vars

C10_Witness ==
  /\ kpc = "ready"
  /\ lastOp.op = "destroy"
  /\ lastOp.ret = 1
  /\ lastOp.len = MaxCount
  /\ Len(lastOp.dtors) = MaxCount

\* the live allocations of the kernel's allocator
Live == LiveAllocations(m_segment_memory_allocator)

\* C11: when the initializer of a named or unique construction fails at
\* element k, the entry just inserted is removed, elements [0, k) are
\* destructed in reverse, the memory is deallocated and the failure
\* propagates: find under the name returns (null, 0) and the live
\* allocations are what they were before the call.
C11_NamedConstructRollback ==
  [][\A c \in CallSites :
       (~HasEntry(c) /\ c[1].kind # "anonymous" /\ lastOp'.op = "construct"
          /\ lastOp'.exc) =>
         \A num \in Counts, failAt \in 1..MaxCount :
            generic_construct(c[1], c[2], num, FALSE, 1, failAt) =>
              /\ lastOp'.dtors = DownFrom(failAt - 1)
              /\ find(c[1], c[2])' = <<nullptr, 0>>
              /\ Live' = Live]_vars

\* C12: when the initializer of an anonymous construction fails at element
\* k, elements [0, k) are destructed in reverse, the allocation is
\* deallocated and the failure propagates: the live allocations after the
\* failed call are those before it.
C12_AnonymousConstructRollback ==
  [][\A c \in CallSites :
       (c[1].kind = "anonymous" /\ lastOp'.op = "construct" /\ lastOp'.exc) =>
         \A num \in Counts, failAt \in 1..MaxCount :
            generic_construct(c[1], c[2], num, FALSE, 1, failAt) =>
              /\ lastOp'.dtors = DownFrom(failAt - 1)
              /\ Live' = Live]_vars

\* C13: on a store opened read-only, allocate and allocate_aligned return
\* null, deallocate has no effect and destroy returns false, for every
\* argument; none of them changes the allocator, the named-object directory
\* or any file.
C13_ReadOnlyRejects ==
  [][(kpc = "ready" /\ m_segment_storage.read_only) =>
       /\ allocate(1) =>
            lastOp'.ret = nullptr /\ UNCHANGED <<disk, kernelVars>>
       /\ \A q \in AlignedRequests :
            allocate_aligned(q[1], q[2]) =>
              lastOp'.ret = nullptr /\ UNCHANGED <<disk, kernelVars>>
       /\ \A addr \in RawPointers \cup {nullptr} :
            deallocate(addr) => UNCHANGED <<disk, kernelVars>>
       /\ \A c \in LifeSites :
            destroy(c[1], c[2], 0) =>
              lastOp'.ret = 0 /\ UNCHANGED <<disk, kernelVars>>]_vars

\* a destroy was refused on a read-only store that holds the object
C13_Witness ==
  /\ kpc = "ready"
  /\ m_segment_storage.read_only
  /\ lastOp.op = "destroy"
  /\ lastOp.ret = 0
  /\ lastOp.key \in DOMAIN m_named_object_directory
  /\ LiveAt(m_segment_memory_allocator, m_named_object_directory[lastOp.key].offset)

\* C14: on a store opened read-only, construct or find_or_construct (named,
\* unique or anonymous) of an object that does not exist yet returns null,
\* inserts no entry into the named-object directory and runs the
\* initializer on no address.
C14_ReadOnlyConstruct ==
  [][\A c \in LifeSites :
       (kpc = "ready" /\ m_segment_storage.read_only /\ ~HasEntry(c)) =>
         \A try2find \in BOOLEAN, v \in ObjVals :
            generic_construct(c[1], c[2], 1, try2find, v, 0) =>
              /\ lastOp'.op = "construct"
              /\ lastOp'.ret = nullptr
              /\ lastOp'.ctors = <<>>
              /\ m_named_object_directory' = m_named_object_directory]_vars

\* C15: when the segment cannot be extended to satisfy a request (the
\* allocator reports its null offset), allocate returns null, trips no
\* assertion and leaves the live allocations unchanged; the same holds for
\* allocate_aligned.
C15_OutOfMemory ==
  [][(kpc = "ready" /\ ~m_segment_storage.read_only) =>
       /\ \A nbytes \in {1, k_chunk_size + 1} :
            (/\ alloc_allocate(m_segment_memory_allocator, nbytes,
                               m_segment_storage.capacity).offset = k_null_offset
             /\ allocate(nbytes)) =>
              lastOp'.op = "allocate" /\ lastOp'.ret = nullptr /\ Live' = Live
       /\ \A q \in AlignedRequests :
            (/\ alloc_allocate_aligned(m_segment_memory_allocator, q[1], q[2],
                                       m_segment_storage.capacity).offset
                  = k_null_offset
             /\ allocate_aligned(q[1], q[2])) =>
              /\ lastOp'.op = "allocate_aligned"
              /\ lastOp'.ret = nullptr
              /\ Live' = Live]_vars

\* the chunks of the directory that are not free
UsedChunks(A) == Cardinality({i \in 1..Len(A) : A[i].kind # "free"})

\* C16: the bytes usable for allocation equal the requested capacity rounded
\* to whole chunks: a store created with a capacity of n chunks serves large
\* allocations as long as their chunks fit into the n chunks (4 chunks: two
\* allocations of 2 chunks), and once all n chunks are taken allocate(1)
\* returns null.
C16_CapacityInChunks ==
  [][(kpc = "ready" /\ ~m_segment_storage.read_only) =>
       LET total == m_vm_region_size \div k_chunk_size
           used == UsedChunks(m_segment_memory_allocator)
       IN /\ m_segment_storage.capacity = m_vm_region_size
          /\ (ChunksFor(k_chunk_size + 1) <= total - used
                /\ allocate(k_chunk_size + 1)) =>
               /\ lastOp'.op = "allocate"
               /\ LiveAt(m_segment_memory_allocator',
                         lastOp'.ret - m_segment_storage.segment)
          /\ (used = total /\ allocate(1)) =>
               lastOp'.op = "allocate" /\ lastOp'.ret = nullptr]_vars

\* C17: for every power-of-two alignment a <= chunk size, every non-null
\* result of allocate_aligned(n, a) has an offset divisible by a and an
\* address divisible by a, the segment base (VM region start plus the
\* chunk-rounded header size) being chunk-aligned; the alignment assertion
\* of allocate_aligned never fails.
C17_AlignedResults ==
  [][\A q \in AlignedRequests :
       (kpc = "ready" /\ IsPowerOfTwo(q[2]) /\ q[2] <= k_chunk_size
          /\ allocate_aligned(q[1], q[2])) =>
         /\ lastOp'.op = "allocate_aligned"
         /\ m_segment_storage.segment % k_chunk_size = 0
         /\ lastOp'.ret # nullptr =>
              /\ (lastOp'.ret - m_segment_storage.segment) % q[2] = 0
              /\ lastOp'.ret % q[2] = 0
              /\ LiveAt(m_segment_memory_allocator',
                        lastOp'.ret - m_segment_storage.segment)]_vars

\* a chunk-aligned block was handed out behind an earlier allocation
C17_Witness ==
  /\ kpc = "ready"
  /\ lastOp.op = "allocate_aligned"
  /\ lastOp.align = k_chunk_size
  /\ lastOp.ret > m_segment_storage.segment
  /\ LiveAt(m_segment_memory_allocator, lastOp.ret - m_segment_storage.segment)

\* C18: allocate_aligned(n, a) with a greater than the chunk size, or with a
\* not a power of two, returns null and allocates nothing.
C18_InvalidAlignment ==
  [][\A q \in AlignedRequests :
       (kpc = "ready" /\ (q[2] > k_chunk_size \/ ~IsPowerOfTwo(q[2]))
          /\ allocate_aligned(q[1], q[2])) =>
         /\ lastOp'.op = "allocate_aligned"
         /\ lastOp'.ret = nullptr
         /\ UNCHANGED <<disk, kernelVars>>]_vars

\* an alignment that is not a power of two was refused on a writable store
C18_Witness ==
  /\ kpc = "ready"
  /\ ~m_segment_storage.read_only
  /\ lastOp.op = "allocate_aligned"
  /\ ~IsPowerOfTwo(lastOp.align)
  /\ lastOp.ret = nullptr
  /\ Live # {}

\* do the byte ranges of two allocations meet
Overlap(a, b) == a.offset < b.offset + b.size /\ b.offset < a.offset + a.size

\* C19: after any sequence of allocate, allocate_aligned, deallocate,
\* construct and destroy, any two live allocations occupy disjoint byte
\* ranges and each lies within [0, current size of the segment); a pointer
\* handed out by a call is not one whose allocation was live before it.
C19_NoOverlap ==
  /\ [](kpc = "ready" =>
          \A a \in Live :
             /\ a.offset >= 0
             /\ a.offset + a.size <= m_segment_storage.size
             /\ \A b \in Live \ {a} : ~Overlap(a, b))
  /\ [][(kpc = "ready" /\ kpc' = "ready"
           /\ lastOp'.op \in {"allocate", "allocate_aligned", "construct"}
           /\ Live' # Live) =>
          /\ \A a \in Live' \ Live : \A b \in Live : ~Overlap(a, b)
          /\ lastOp'.ret # nullptr =>
               ~LiveAt(m_segment_memory_allocator,
                       lastOp'.ret - m_segment_storage.segment)]_vars

\* as many allocations as calls are live at once, in more than one chunk
C19_Witness ==
  /\ kpc = "ready"
  /\ Cardinality(Live) >= MaxObjOps
  /\ \E a \in Live : a.size < k_chunk_size
  /\ \E a \in Live : a.offset >= k_chunk_size

\* the live allocations at the address ptr of the segment
AllocationsAt(L, ptr) == {a \in L : a.offset = ptr - m_segment_storage.segment}

C21_SnapshotEntries ==
  [][\A dst \in SnapPaths :
       (kpc = "ready" /\ lastOp'.op = "snapshot" /\ lastOp'.ret = 1) =>
         \A okS, okCopy, okUuid, okMark \in BOOLEAN :
            snapshot(dst, okS, okS, okCopy, okUuid, okMark) =>
              /\ disk'[dst].ds /\ disk'[dst].marker
              /\ disk'[dst].seg
              /\ priv_deserializable(disk'[dst])
              /\ dir_deserialize(disk'[dst].ndir) = m_named_object_directory
              /\ kpc' = "ready"
              /\ UNCHANGED kernelVars
              /\ disk'[m_base_dir_path].marker = disk[m_base_dir_path].marker]_vars

\* C22: a snapshot has a new identity: after snapshot(dst) returned true,
\* the UUID of dst differs from the UUID of the source, and the UUID of the
\* source is the one it had before the snapshot.
C22_SnapshotNewUuid ==
  [][\A dst \in SnapPaths :
       (kpc = "ready" /\ lastOp'.op = "snapshot" /\ lastOp'.ret = 1) =>
         \A okS, okCopy, okUuid, okMark \in BOOLEAN :
            snapshot(dst, okS, okS, okCopy, okUuid, okMark) =>
              /\ disk'[dst].uuid # disk'[m_base_dir_path].uuid
              /\ disk'[dst].uuid # 0
              /\ disk'[m_base_dir_path].uuid = disk[m_base_dir_path].uuid]_vars

\* a snapshot of a store holding an object was taken
C22_Witness ==
  /\ kpc = "ready"
  /\ lastOp.op = "snapshot"
  /\ lastOp.ret = 1
  /\ m_named_object_directory # EmptyDir
  /\ disk[lastOp.key].uuid # disk[m_base_dir_path].uuid
  /\ disk[m_base_dir_path].uuid # 0

\* C23: snapshot independence: no later operation on the source (construct,
\* destroy, allocate, deallocate, close, the destructor, a kill, remove of
\* the source) changes any file under dst: its entries, UUID and marker stay
\* as they were.
C23_SnapshotIndependence ==
  [][\A dst \in SnapPaths :
       (\/ /\ kpc = "ready"
            /\ m_base_dir_path # dst
            /\ lastOp'.op \in {"construct", "destroy", "allocate",
                                "allocate_aligned", "deallocate"}
         \/ /\ kpc \in {"ready", "close_serialize", "close_sync", "close_destroy",
                          "close_header", "close_vm", "dtor_mark"}
            /\ m_base_dir_path \notin {dst, ""}
            /\ kpc' # kpc
         \/ /\ kpc = "none" /\ kpc' = "none"
            /\ lastOp'.op = "remove"
            /\ lastOp'.key # dst)
       => disk'[dst] = disk[dst]]_vars

\* the source of a snapshot that holds an object has been removed
C23_Witness ==
  /\ kpc = "none"
  /\ lastOp.op = "remove"
  /\ lastOp.ret = 1
  /\ \E src \in Paths, dst \in SnapPaths :
        /\ lastOp.key = src
        /\ ~disk[src].ds
        /\ disk[dst].ds /\ disk[dst].marker
        /\ disk[dst].ndirOk /\ dir_deserialize(disk[dst].ndir) # EmptyDir

\* C24: for a closed, consistent source, copy(src, dst) returning true leaves
\* dst consistent, with the UUID of src and the named/unique entries of src,
\* and leaves every file of src unchanged.
C24_CopyClosedStore ==
  [][\A src \in Paths, dst \in SnapPaths :
       (kpc = "none" /\ consistent(src) /\ copy(src, dst, TRUE) /\ lastOp'.ret = 1) =>
         /\ disk'[dst].ds /\ disk'[dst].marker
         /\ disk'[dst].uuid = disk[src].uuid
         /\ disk'[dst].ndirOk = disk[src].ndirOk
         /\ dir_deserialize(disk'[dst].ndir) = dir_deserialize(disk[src].ndir)
         /\ disk'[dst].nallocOk = disk[src].nallocOk
         /\ disk'[dst].nalloc = disk[src].nalloc
         /\ disk'[dst].seg = disk[src].seg
         /\ disk'[dst].data = disk[src].data
         /\ disk'[src] = disk[src]]_vars

\* a closed, consistent store that holds an object has been copied
C24_Witness ==
  /\ kpc = "none"
  /\ lastOp.op = "copy"
  /\ lastOp.ret = 1
  /\ \E src \in Paths :
        /\ consistent(src) /\ consistent(lastOp.key)
        /\ disk[src].uuid # 0
        /\ disk[lastOp.key].uuid = disk[src].uuid
        /\ disk[src].ndirOk
        /\ dir_deserialize(disk[src].ndir) # EmptyDir
        /\ dir_deserialize(disk[lastOp.key].ndir) = dir_deserialize(disk[src].ndir)

\* C25: after remove(path) returns true the datastore and its properly_closed
\* marker are gone, whether the store was consistent or left inconsistent by
\* a crash: consistent(path) is false, no open is ever under way on a path
\* without a datastore, and a create that returns leaves an operational store.
C25_Remove ==
  /\ [][\A path \in Paths \cup SnapPaths :
          (kpc = "none" /\ remove(path, TRUE)) =>
            /\ lastOp'.ret = 1
            /\ disk'[path] = NoStore
            /\ ~disk'[path].ds /\ ~disk'[path].marker /\ ~disk'[path].seg
            /\ \A other \in (Paths \cup SnapPaths) \ {path} :
                  disk'[other] = disk[other]]_vars
  /\ [](\A path \in Paths \cup SnapPaths :
          (kpc = "none" /\ lastOp.op = "remove" /\ lastOp.ret = 1 /\ lastOp.key = path) =>
            ~consistent(path) /\ ~openable(path))
  /\ [](kpc \in {"open_reserve", "open_header", "open_unmark", "open_segment",
                 "open_deserialize"} => openable(m_base_dir_path))
  /\ []((kpc = "ready" /\ lastOp.op = "create") =>
          /\ disk[m_base_dir_path].ds /\ disk[m_base_dir_path].seg
          /\ disk[m_base_dir_path].uuid # 0
          /\ m_segment_storage.segment # nullptr
          /\ ~m_segment_storage.read_only
          /\ m_named_object_directory = EmptyDir)

\* a store has been removed after the last kernel ended without running close,
\* while an inconsistent copy of a created store is still on the disk
C25_Witness ==
  /\ kpc = "none"
  /\ closeLog = NoCloseLog
  /\ lastOp.op = "remove"
  /\ lastOp.ret = 1
  /\ lastOp.key \in Paths
  /\ disk[lastOp.key] = NoStore
  /\ \E dst \in SnapPaths : disk[dst].ds /\ ~disk[dst].marker /\ disk[dst].uuid # 0

\* C26: create(path) on a path that already holds a datastore, consistent or
\* not, overwrites it: priv_init_datastore_directory leaves an empty
\* datastore directory, and when create returns no entry of the previous
\* store is findable, no allocation is live, the UUID is one that no store
\* held before, and the marker is absent for the whole writable session.
C26_CreateOverwrites ==
  /\ [][(kpc = "create_initdir" /\ kpc' = "create_reserve") =>
          disk'[m_base_dir_path] = [NoStore EXCEPT !.ds = TRUE]]_vars
  /\ [](kpc \in {"create_reserve", "create_header", "create_segment", "create_uuid"} =>
          /\ ~disk[m_base_dir_path].marker
          /\ ~disk[m_base_dir_path].ndirOk
          /\ ~disk[m_base_dir_path].nallocOk
          /\ disk[m_base_dir_path].uuid = 0
          /\ m_named_object_directory = EmptyDir)
  /\ [][(kpc = "create_uuid" /\ kpc' = "ready") =>
          /\ disk'[m_base_dir_path].uuid # 0
          /\ \A path \in DiskPaths : disk'[m_base_dir_path].uuid # disk[path].uuid]_vars
  /\ []((kpc = "ready" /\ lastOp.op = "create") =>
          /\ m_named_object_directory = EmptyDir
          /\ \A c \in CallSites : ~HasEntry(c)
          /\ Live = {}
          /\ disk[m_base_dir_path].data = ZeroData
          /\ ~disk[m_base_dir_path].ndirOk
          /\ ~disk[m_base_dir_path].nallocOk)
  /\ []((kpc = "ready" /\ ~m_segment_storage.read_only) =>
          ~disk[m_base_dir_path].marker)

\* create has returned on a path whose earlier store, still to be seen in a
\* copy of it, held an object
C26_Witness ==
  /\ kpc = "ready"
  /\ lastOp.op = "create"
  /\ m_named_object_directory = EmptyDir
  /\ \E dst \in SnapPaths :
        /\ disk[dst].ds /\ disk[dst].ndirOk
        /\ dir_deserialize(disk[dst].ndir) # EmptyDir
        /\ disk[dst].uuid # 0
        /\ disk[dst].uuid < disk[m_base_dir_path].uuid

\* C27: a read-only session never changes the persistent store: from
\* open_read_only to the end of the destructor, and over a kill at any point
\* of it, no file of any store changes (the marker is not removed, close
\* rewrites neither management file) and consistent(path) stays true.
C27_ReadOnlySession ==
  /\ [][(\/ /\ kpc \in {"open_reserve", "open_header", "open_unmark", "open_segment",
                          "open_deserialize"}
             /\ call.read_only
          \/ /\ kpc \in {"ready", "close_serialize", "close_sync", "close_destroy"}
             /\ m_segment_storage.read_only
          \/ /\ kpc \in {"close_header", "close_vm", "closed", "dtor_mark"}
             /\ closeLog.ran /\ closeLog.serialize = "skipped")
         => /\ disk' = disk
            /\ \A path \in Paths : m_base_dir_path = path => consistent(path)']_vars
  /\ []((\/ /\ kpc \in {"open_reserve", "open_header", "open_unmark", "open_segment",
                          "open_deserialize"}
             /\ call.read_only
          \/ /\ kpc \in {"ready", "close_serialize", "close_sync", "close_destroy"}
             /\ m_segment_storage.read_only
          \/ /\ kpc \in {"close_header", "close_vm", "closed", "dtor_mark"}
             /\ closeLog.ran /\ closeLog.serialize = "skipped")
         => consistent(m_base_dir_path))

\* the destructor of a read-only kernel has run on a store that holds an
\* object, and the store is as the last writable session left it
C27_Witness ==
  /\ kpc = "none"
  /\ lastOp.op = "destroyed"
  /\ closeLog.ran
  /\ closeLog.serialize = "skipped"
  /\ closeLog.mark = "ok"
  /\ consistent(closeLog.path)
  /\ closedDir[closeLog.path] # EmptyDir
  /\ disk[closeLog.path].ndirOk
  /\ dir_deserialize(disk[closeLog.path].ndir) = closedDir[closeLog.path]

\* C28: construct and find_or_construct are thread-safe against each other:
\* when the two threads each call one of them with the same key that has no
\* entry, one allocation is made, one initializer is run and one entry is
\* inserted; with construct exactly one call returns non-null (the address of
\* the entry) and the other null, with find_or_construct both calls return
\* the address of the entry.
C28_ConcurrentConstruct ==
  \A t \in Threads, u \in Threads :
     (/\ t # u
      /\ kpc = "ready"
      /\ ops = 2
      /\ Th(t).pc = "done" /\ Th(t).op = "construct"
      /\ Th(u).pc = "done" /\ Th(u).op = "construct")
     => LET f == find(ThrSite[1], ThrSite[2])
        IN /\ f[1] # nullptr
           /\ f[2] = 1
           /\ Cardinality(Live) = 1
           /\ LiveAt(m_segment_memory_allocator, f[1] - m_segment_storage.segment)
           /\ Th(t).inits + Th(u).inits = 1
           /\ Th(t).ret \in {nullptr, f[1]}
           /\ Th(t).try2find => Th(t).ret = f[1]
           /\ Th(t).ret = f[1] \/ Th(u).ret = f[1]
           /\ (~Th(t).try2find /\ ~Th(u).try2find) =>
                 (Th(t).ret = nullptr) # (Th(u).ret = nullptr)

\* two construct calls have overlapped; one returned the new object, the
\* other, which entered while the first was inside the kernel, null
C28_Witness ==
  /\ kpc = "ready"
  /\ ops = 2
  /\ \E t \in Threads, u \in Threads :
        /\ t # u
        /\ Th(t).pc = "done" /\ Th(t).op = "construct" /\ ~Th(t).try2find
        /\ Th(u).pc = "done" /\ Th(u).op = "construct" /\ ~Th(u).try2find
        /\ Th(u).conc
        /\ Th(t).ret # nullptr /\ Th(t).inits = 1
        /\ Th(u).ret = nullptr /\ Th(u).inits = 0
        /\ Cardinality(Live) = 1

\* C29: destroy removes the directory entry first, then runs the element
\* destructors, then deallocates: after the directory step of a destroy the
\* entry is absent and the allocation untouched, and the allocation is freed
\* by the step after it. If a destructor fails, the call ends there: the
\* entry is absent (find returns (null, 0)), the object's memory is still
\* allocated, and the thread holds no lock.
C29_DestroyOrder ==
  [][\A t \in Threads :
       (/\ Th(t).pc = "directory"
        /\ Th(t).op = "destroy"
        /\ raw_name(ThrSite[1], ThrSite[2]) \in DOMAIN m_named_object_directory
        /\ directory_step(t)
        /\ kpc' = "ready")
       => LET e == m_named_object_directory[raw_name(ThrSite[1], ThrSite[2])]
          IN /\ raw_name(ThrSite[1], ThrSite[2]) \notin DOMAIN m_named_object_directory'
             /\ m_segment_memory_allocator' = m_segment_memory_allocator
             /\ LiveAt(m_segment_memory_allocator', e.offset)
             /\ IF Th(t).failAt >= 1 /\ Th(t).failAt <= e.length
                  THEN /\ Th(t)'.pc = "done"
                       /\ Th(t)'.exc
                       /\ Th(t)'.inits = Th(t).failAt - 1
                       /\ Th(t)'.held = <<>>
                  ELSE /\ Th(t)'.pc = "lockE"
                       /\ Th(t)'.inits = e.length
                       /\ Th(t)'.held = <<"F">>
                       /\ Th(t)'.addr = e.offset + m_segment_storage.segment]_vars
  /\ [][\A t \in Threads :
          (Th(t).pc = "heap" /\ Th(t).op = "destroy" /\ heap_step(t)) =>
            /\ ~LiveAt(m_segment_memory_allocator',
                       Th(t).addr - m_segment_storage.segment)
            /\ Th(t)'.pc = "done" /\ Th(t)'.ret = 1 /\ Th(t)'.held = <<>>]_vars

\* after a destroy whose destructor failed, construct with the same key has
\* succeeded again; the memory of the first object is still allocated
C29_Witness ==
  /\ kpc = "ready"
  /\ \E t \in Threads, u \in Threads :
        /\ t # u
        /\ Th(u).pc = "done" /\ Th(u).op = "destroy" /\ Th(u).exc
        /\ Th(u).held = <<>>
        /\ Th(t).pc = "done" /\ Th(t).op = "construct"
        /\ Th(t).ret # nullptr /\ Th(t).inits = 1
        /\ find(ThrSite[1], ThrSite[2])[1] = Th(t).ret
        /\ ops = 3
        /\ Cardinality(Live) = 2

\* C30: lock hierarchy: a thread that holds both locks took F before E, no
\* thread waits for F while it holds E, and whenever a thread waits for a
\* lock some thread can take a step: no interleaving of construct,
\* find_or_construct, find, destroy, allocate and deallocate deadlocks.
C30_LockHierarchy ==
  /\ \A t \in Threads :
        /\ Th(t).held \in {<<>>, <<"F">>, <<"E">>, <<"F", "E">>}
        /\ Holds(t, "E") => Th(t).pc # "lockF"
        /\ Th(t).pc \in {"idle", "done"} => Th(t).held = <<>>
  /\ (\E t \in Threads : Th(t).pc \in {"lockF", "lockE"}) =>
        \E u \in Threads :
           \/ Th(u).pc \in {"directory", "heap", "insert", "init"}
           \/ Th(u).pc = "lockF" /\ \A w \in Threads : ~Holds(w, "F")
           \/ Th(u).pc = "lockE" /\ \A w \in Threads : ~Holds(w, "E")

\* a destroy holds F and E, in that order, while the other thread waits for
\* the allocator's lock inside allocate
C30_Witness ==
  \E t \in Threads, u \in Threads :
     /\ t # u
     /\ Th(t).op = "destroy"
     /\ Th(t).held = <<"F", "E">>
     /\ Th(u).op = "allocate"
     /\ Th(u).pc = "lockE"

\* C31: in a named or unique construct the directory lock is released after
\* the entry has been inserted and before the initializer runs: a thread
\* whose initializer is running does not hold F, and a thread that waits for
\* F to work on another key finds the lock free.
C31_LockReleasedBeforeInit ==
  \A t \in Threads :
     Th(t).pc = "init" =>
       /\ ~Holds(t, "F")
       /\ \A u \in Threads \ {t} :
             (Th(u).pc = "lockF" /\ Th(u).key # Th(t).key) =>
               \A w \in Threads : ~Holds(w, "F")

\* C32: when the two threads call destroy with the same key concurrently,
\* each call entered while the key had an entry and the second entered
\* right after the first and before it returned, exactly one call returns
\* true and the other false; the destructor has run once on the object, its
\* entry is gone and its memory has been deallocated once.
C32_ConcurrentDestroy ==
  \A t \in Threads, u \in Threads :
     (/\ t # u
      /\ kpc = "ready"
      /\ Th(t).pc = "done" /\ Th(t).op = "destroy" /\ Th(t).had /\ Th(t).failAt = 0
      /\ Th(u).pc = "done" /\ Th(u).op = "destroy" /\ Th(u).had /\ Th(u).failAt = 0
      /\ Th(u).conc /\ Th(u).seq = Th(t).seq + 1
      /\ Th(t).key = Th(u).key)
     => /\ (Th(t).ret = 1) # (Th(u).ret = 1)
        /\ Th(t).ret \in {0, 1} /\ Th(u).ret \in {0, 1}
        /\ ~Th(t).exc /\ ~Th(u).exc
        /\ Th(t).inits + Th(u).inits = 1
        /\ Th(t).key \notin DOMAIN m_named_object_directory
        /\ Th(t).ret = 1 =>
              ~LiveAt(m_segment_memory_allocator,
                      Th(t).addr - m_segment_storage.segment)

\* two destroy calls on the same object have overlapped: one returned true
\* after running the destructor, the other false
C32_Witness ==
  /\ kpc = "ready"
  /\ \E t \in Threads, u \in Threads :
        /\ t # u
        /\ Th(t).pc = "done" /\ Th(t).op = "destroy" /\ Th(t).had
        /\ Th(u).pc = "done" /\ Th(u).op = "destroy" /\ Th(u).had /\ Th(u).conc
        /\ Th(u).seq = Th(t).seq + 1
        /\ Th(t).ret = 1 /\ Th(t).inits = 1
        /\ Th(u).ret = 0 /\ Th(u).inits = 0
        /\ Live = {}

\* C33: on a writable open the properly_closed marker is removed only after
\* the segment has been mapped and the management data deserialized: while
\* the segment is being opened or the data deserialized the marker is still
\* there, and an open that aborts at either step leaves the store consistent.
C33_UnmarkAfterDeserialize ==
  /\ [](kpc \in {"open_segment", "open_deserialize"} => consistent(m_base_dir_path))
  /\ [][\A path \in Paths :
          (/\ kpc \in {"open_segment", "open_deserialize"}
           /\ ~call.read_only
           /\ m_base_dir_path = path
           /\ kpc' = "none"
           /\ lastOp'.op = "abort")
          => consistent(path)']_vars

\* C34: create with a capacity above the maximum segment size, or under a
\* runtime configuration that does not validate, ends the process before any
\* file is touched: every store on disk, the one at the path included, keeps
\* its files and its marker.
C34_CreateRejectsBeforeFiles ==
  [][\A path \in Paths, size \in ReserveSizes, page_ok \in BOOLEAN :
        (/\ create_begin(path, size, page_ok)
         /\ (size > k_max_segment_size \/ ~page_ok))
        => /\ kpc' = "none"
           /\ lastOp'.op = "abort"
           /\ disk' = disk
           /\ consistent(path)' = consistent(path)]_vars

\* create has been refused on the path of a properly closed store
C34_Witness ==
  /\ kpc = "none"
  /\ lastOp.op = "abort"
  /\ lastOp.key = "invalid_configuration"
  /\ \E path \in Paths : consistent(path) /\ disk[path].seg /\ disk[path].uuid # 0

\* C35: for a destination that did not exist before, snapshot(dst) returns
\* true only if the copy, the write of the fresh UUID and the write of the
\* destination's marker all succeeded, and whenever it returns false the
\* destination is not consistent, whether the source is open writable or
\* read-only.
C35_SnapshotFailureInconsistent ==
  [][\A dst \in SnapPaths, okF, okE, okCopy, okUuid, okMark \in BOOLEAN :
        (/\ snapshot(dst, okF, okE, okCopy, okUuid, okMark)
         /\ ~disk[dst].ds)
        => /\ lastOp'.ret = 1 => (okCopy /\ okUuid /\ okMark)
           /\ lastOp'.ret = 0 => ~consistent(dst)']_vars

\* C36: in every state of an open kernel every entry of the named-object
\* directory has an offset >= 0 and its object, offset + length * sizeof(T)
\* bytes, lies within the segment's current size; no operation, a construct
\* on a read-only store or after a failed allocation included, inserts an
\* entry outside it.
C36_EntriesInSegment ==
  kpc = "ready" =>
    \A key \in DOMAIN m_named_object_directory :
       LET e == m_named_object_directory[key]
           T == IF key = TypeIdName("short") THEN "short" ELSE "char"
       IN /\ e.offset >= 0
          /\ e.offset + e.length * SizeOf(T) <= m_segment_storage.size

\* C37: on a writable store the named-object directory and the allocator
\* agree after every successful construct, find_or_construct and destroy:
\* every entry's offset is the head of a live allocation and distinct keys
\* have distinct offsets; a destroy that returned true leaves the object's
\* allocation free, and a construct that returned null leaves the live
\* allocations as they were. Stated as the step from any state in which the
\* two agree.
C37_DirectoryAllocatorAgree ==
  [][LET Agree(D, A) ==
        /\ \A key \in DOMAIN D : LiveAt(A, D[key].offset)
        /\ \A k1, k2 \in DOMAIN D : k1 # k2 => D[k1].offset # D[k2].offset
  IN (/\ kpc = "ready" /\ kpc' = "ready"
         /\ ~m_segment_storage.read_only
         /\ Agree(m_named_object_directory, m_segment_memory_allocator)
         /\ lastOp' # lastOp
         /\ lastOp'.op \in {"construct", "destroy"}
         /\ ~lastOp'.exc)
        => /\ (lastOp'.op = "construct" /\ lastOp'.ret # nullptr) =>
                Agree(m_named_object_directory', m_segment_memory_allocator')
           /\ (lastOp'.op = "construct" /\ lastOp'.ret = nullptr) =>
                /\ Live' = Live
                /\ m_named_object_directory' = m_named_object_directory
           /\ (lastOp'.op = "destroy" /\ lastOp'.ret = 1) =>
                /\ Agree(m_named_object_directory', m_segment_memory_allocator')
                /\ lastOp'.key \notin DOMAIN m_named_object_directory'
                /\ ~LiveAt(m_segment_memory_allocator',
                           m_named_object_directory[lastOp'.key].offset)
    ]_vars

\* C38: closing or destroying a kernel that was never initialized (no
\* create, no successful open; a kernel whose open returned false included)
\* is a no-op: no assertion fails, no properly_closed marker appears under
\* any path and no file changes.
C38_UninitializedCloseNoOp ==
  /\ [][\A from_dtor \in BOOLEAN :
          (kpc = "idle" /\ close_begin(from_dtor))
          => /\ lastOp'.op = "close"
             /\ kpc' = IF from_dtor THEN "dtor_mark" ELSE "idle"
             /\ disk' = disk]_vars
  /\ [][(kpc = "dtor_mark" /\ m_base_dir_path = "") => disk' = disk]_vars

\* C39: the UUID of a store is written only by create, for the new store,
\* and by snapshot, for the destination: open, open read-only, construct,
\* destroy, close, the destructor and a kill leave the UUID file of every
\* store as it is, and so do snapshot and copy for their source. The file
\* changes only when create replaces the store, when the store is the
\* destination of a snapshot or of a copy, or when it is removed.
C39_UuidStable ==
  [][\A path \in Paths \cup SnapPaths :
        disk'[path].uuid # disk[path].uuid =>
          \/ /\ kpc \in {"create_initdir", "create_uuid"}
             /\ m_base_dir_path = path
          \/ /\ kpc = "ready" /\ kpc' = "ready"
             /\ lastOp'.op = "snapshot"
             /\ lastOp'.key = path
             /\ m_base_dir_path # path
          \/ /\ kpc = "none" /\ kpc' = "none"
             /\ lastOp'.op \in {"copy", "remove"}
             /\ lastOp'.key = path]_vars

\* a store still has the UUID create gave it after it was closed, opened
\* read-only and taken a snapshot of
C39_Witness ==
  /\ kpc = "ready"
  /\ m_segment_storage.read_only
  /\ lastOp.op = "snapshot"
  /\ lastOp.ret = 1
  /\ disk[m_base_dir_path].uuid = 1
  /\ disk[lastOp.key].uuid > 1
  /\ m_named_object_directory # EmptyDir

====
